---- MODULE Spec2Model ----
(***************************************************************************)
(* Model of the Pybricks BLE broadcast/observe module                      *)
(* (pybricks/common/pb_type_ble.c): the value codec, the advertising       *)
(* payload builder, the per-channel observation table written by the       *)
(* driver callback, the task bridge and the singleton lifecycle.           *)
(*                                                                         *)
(* Bytes are naturals 0..255 and buffers are sequences; C index i is       *)
(* element i+1.  TLC integers are 32 bits wide, so a Python integer n is   *)
(* the pair <<hi, lo>> with n = hi * 65536 + lo and lo in 0..65535; the    *)
(* numeric order of integers is the lexicographic order of the pairs.      *)
(***************************************************************************)
EXTENDS Integers, Sequences, FiniteSets, TLC

(***************************************************************************)
(* Program constants.                                                      *)
(***************************************************************************)
OBSERVED_DATA_MAX_SIZE == 31 - 5
MAX_CHANNEL_NUMBER == 15
MFG_SPECIFIC == 255
LEGO_CID == 919
MAX_ADV_DATA_SIZE == 31

PB_BLE_BROADCAST_DATA_TYPE_NONE == 0
PB_BLE_BROADCAST_DATA_TYPE_TRUE == 1
PB_BLE_BROADCAST_DATA_TYPE_FALSE == 2
PB_BLE_BROADCAST_DATA_TYPE_INT == 3
PB_BLE_BROADCAST_DATA_TYPE_FLOAT == 4
PB_BLE_BROADCAST_DATA_TYPE_STR == 5
PB_BLE_BROADCAST_DATA_TYPE_BYTES == 6

(***************************************************************************)
(* Bounds of the model.                                                    *)
(***************************************************************************)
\* highest max_observe_channel tried by construct (valid arguments)
MaxObserve == 1
\* longest str / bytes value of the dense part of the codec inputs
MaxStrLen == 2

\* the system clock of the motor process runs from 0 to MaxClock
MaxClock == 7

\* the number of motor ports of the ev3dev driver
NumMotorPorts == 2

\* how often a call that waits for completion polls the control state
MaxDelays == 2

(***************************************************************************)
(* Integers as pairs and bytes.                                            *)
(***************************************************************************)
I(k) == <<k \div 65536, k % 65536>>

Le(a, b) == a[1] < b[1] \/ (a[1] = b[1] /\ a[2] <= b[2])

\* mutant: the bound of the unsigned byte in place of INT8_MAX
INT8_MAX_unsigned == I(255)

\* mutant: the bound of the unsigned word in place of INT32_MAX
INT32_MAX_unsigned == <<65535, 65535>>

INT8_MIN == I(-128)
INT8_MAX == I(127)
INT16_MIN == I(-32768)
INT16_MAX == I(32767)
INT32_MIN == <<-32768, 0>>
INT32_MAX == <<32767, 65535>>

RECURSIVE BitOr(_, _)
BitOr(a, b) ==
    IF a = 0 THEN b
    ELSE IF b = 0 THEN a
    ELSE (IF a % 2 = 1 \/ b % 2 = 1 THEN 1 ELSE 0) + 2 * BitOr(a \div 2, b \div 2)

\* the object representation of a machine integer, little-endian, `size` bytes
LeBytes(n, size) ==
    LET lo == n[2]
        hi == n[1] % 65536
        all == <<lo % 256, lo \div 256, hi % 256, hi \div 256>>
    IN  SubSeq(all, 1, size)

pbio_get_uint16_le(mem, index) == mem[index + 1] + 256 * mem[index + 2]

pbio_get_uint32_le(mem, index) ==
    <<pbio_get_uint16_le(mem, index + 2), pbio_get_uint16_le(mem, index)>>

\* conversions of an unsigned bit pattern to the signed type of the same width
AsInt8(b) == IF b >= 128 THEN I(b - 256) ELSE I(b)
\* mutant: the 16-bit value is not converted to int16_t
AsInt16_unsigned(u) == I(u)

AsInt16(u) == IF u >= 32768 THEN I(u - 65536) ELSE I(u)
AsInt32(u) == IF u[1] >= 32768 THEN <<u[1] - 65536, u[2]>> ELSE u

(***************************************************************************)
(* Python values: kind t, integer or float bit pattern n, bytes b.  A      *)
(* float is the bit pattern n of the nearest single below it and x, the    *)
(* quarter units of the last place by which it exceeds that single (0 when *)
(* the float is a single; only a double has x > 0).                        *)
(***************************************************************************)
NoBytes == <<>>
Val(t, n, b) == [t |-> t, n |-> n, b |-> b, x |-> 0]
VNone == Val("none", I(0), NoBytes)
VTrue == Val("true", I(0), NoBytes)
VFalse == Val("false", I(0), NoBytes)
VInt(n) == Val("int", n, NoBytes)
VFloat(bits, x) == [Val("float", bits, NoBytes) EXCEPT !.x = x]
VStr(b) == Val("str", I(0), b)
VBytes(b) == Val("bytes", I(0), b)
VObj == Val("obj", I(0), NoBytes)

(***************************************************************************)
(* Build configurations: __SIZEOF_POINTER__, MICROPY_FLOAT_IMPL, and        *)
(* whether assert() is compiled in.                                        *)
(***************************************************************************)
Builds ==
    { [ptr |-> 4, float |-> "float", asserts |-> FALSE],
      [ptr |-> 4, float |-> "none", asserts |-> FALSE],
      [ptr |-> 8, float |-> "double", asserts |-> TRUE] }

\* float single_value = float_value: round to the nearest single
DoubleToSingle(arg) ==
    IF arg.x < 2 THEN arg.n
    ELSE IF arg.n[2] = 65535 THEN <<arg.n[1] + 1, 0>> ELSE <<arg.n[1], arg.n[2] + 1>>

\* mp_obj_get_int_maybe: an int that does not fit mp_int_t raises OverflowError
\* (64-bit words hold every integer of the model, |n| < 2^47)
FitsWord(bld, n) == bld.ptr = 8 \/ (Le(INT32_MIN, n) /\ Le(n, INT32_MAX))

\* mp_obj_get_int: the value of an int that fits mp_int_t, OverflowError otherwise
mp_obj_get_int(bld, n) ==
    IF FitsWord(bld, n) THEN [err |-> "none", v |-> n]
    ELSE [err |-> "OverflowError", v |-> I(0)]

\* mp_obj_get_int_truncated: the low bits of the int that make up an mp_int_t
mp_obj_get_int_truncated(bld, n) ==
    IF bld.ptr = 8 THEN n
    ELSE <<((n[1] + 32768) % 65536) - 32768, n[2]>>

(***************************************************************************)
(* Value codec: encode.                                                    *)
(***************************************************************************)
Raise(err, dst, index) == [err |-> err, dst |-> dst, index |-> index]

\* mutant: the record is written without a check of the space that is left
pb_module_ble_append_no_limit(dst, index, src, size, type) ==
    LET next_index == index + size + 1 IN
    [err |-> "none",
     dst |-> SubSeq(dst, 1, index)
             \o <<BitOr((type * 32) % 256, size % 256)>>
             \o SubSeq(src, 1, size)
             \o SubSeq(dst, next_index + 1, Len(dst)),
     index |-> next_index]

\* mutant: a record that ends exactly at the 26th byte is refused
pb_module_ble_append_rejects_full(dst, index, src, size, type) ==
    LET next_index == index + size + 1 IN
    IF next_index >= OBSERVED_DATA_MAX_SIZE
    THEN Raise("ValueError", dst, index)
    ELSE [err |-> "none",
          dst |-> SubSeq(dst, 1, index)
                  \o <<BitOr((type * 32) % 256, size % 256)>>
                  \o SubSeq(src, 1, size)
                  \o SubSeq(dst, next_index + 1, Len(dst)),
          index |-> next_index]

\* mutant: the bound check forgets the header byte
pb_module_ble_append_no_header(dst, index, src, size, type) ==
    LET next_index == index + size + 1 IN
    IF index + size > OBSERVED_DATA_MAX_SIZE
    THEN Raise("ValueError", dst, index)
    ELSE [err |-> "none",
          dst |-> SubSeq(dst, 1, index)
                  \o <<BitOr((type * 32) % 256, size % 256)>>
                  \o SubSeq(src, 1, size)
                  \o SubSeq(dst, next_index + 1, Len(dst)),
          index |-> next_index]

pb_module_ble_append(dst, index, src, size, type) ==
    LET next_index == index + size + 1 IN
    IF next_index > OBSERVED_DATA_MAX_SIZE
    THEN Raise("ValueError", dst, index)
    ELSE [err |-> "none",
          dst |-> SubSeq(dst, 1, index)
                  \o <<BitOr((type * 32) % 256, size % 256)>>
                  \o SubSeq(src, 1, size)
                  \o SubSeq(dst, next_index + 1, Len(dst)),
          index |-> next_index]

\* mutant: an object of any other type is sent as None
pb_module_ble_encode_any_object(bld, dst, index, arg) ==
    IF arg.t = "none"
    THEN pb_module_ble_append(dst, index, NoBytes, 0, PB_BLE_BROADCAST_DATA_TYPE_NONE)
    ELSE IF arg.t = "true"
    THEN pb_module_ble_append(dst, index, NoBytes, 0, PB_BLE_BROADCAST_DATA_TYPE_TRUE)
    ELSE IF arg.t = "false"
    THEN pb_module_ble_append(dst, index, NoBytes, 0, PB_BLE_BROADCAST_DATA_TYPE_FALSE)
    ELSE IF arg.t = "int"
    THEN LET int_value == arg.n IN
         IF ~FitsWord(bld, int_value)
         THEN Raise("OverflowError", dst, index)
         ELSE IF Le(INT8_MIN, int_value) /\ Le(int_value, INT8_MAX)
         THEN pb_module_ble_append(dst, index, LeBytes(int_value, 1), 1,
                                   PB_BLE_BROADCAST_DATA_TYPE_INT)
         ELSE IF Le(INT16_MIN, int_value) /\ Le(int_value, INT16_MAX)
         THEN pb_module_ble_append(dst, index, LeBytes(int_value, 2), 2,
                                   PB_BLE_BROADCAST_DATA_TYPE_INT)
         ELSE IF bld.ptr = 4
         THEN pb_module_ble_append(dst, index, LeBytes(int_value, 4), 4,
                                   PB_BLE_BROADCAST_DATA_TYPE_INT)
         ELSE IF Le(INT32_MIN, int_value) /\ Le(int_value, INT32_MAX)
         THEN pb_module_ble_append(dst, index, LeBytes(int_value, 4), 4,
                                   PB_BLE_BROADCAST_DATA_TYPE_INT)
         ELSE Raise("OverflowError", dst, index)
    ELSE IF bld.float # "none" /\ arg.t = "float"
    THEN IF bld.float = "double"
         THEN pb_module_ble_append(dst, index, LeBytes(DoubleToSingle(arg), 4), 4,
                                   PB_BLE_BROADCAST_DATA_TYPE_FLOAT)
         ELSE pb_module_ble_append(dst, index, LeBytes(arg.n, 4), 4,
                                   PB_BLE_BROADCAST_DATA_TYPE_FLOAT)
    ELSE IF arg.t \in {"str", "bytes"}
    THEN pb_module_ble_append(dst, index, arg.b, Len(arg.b),
                              IF arg.t = "str" THEN PB_BLE_BROADCAST_DATA_TYPE_STR
                              ELSE PB_BLE_BROADCAST_DATA_TYPE_BYTES)
    ELSE pb_module_ble_append(dst, index, NoBytes, 0, PB_BLE_BROADCAST_DATA_TYPE_NONE)

pb_module_ble_encode(bld, dst, index, arg) ==
    IF arg.t = "none"
    THEN pb_module_ble_append(dst, index, NoBytes, 0, PB_BLE_BROADCAST_DATA_TYPE_NONE)
    ELSE IF arg.t = "true"
    THEN pb_module_ble_append(dst, index, NoBytes, 0, PB_BLE_BROADCAST_DATA_TYPE_TRUE)
    ELSE IF arg.t = "false"
    THEN pb_module_ble_append(dst, index, NoBytes, 0, PB_BLE_BROADCAST_DATA_TYPE_FALSE)
    ELSE IF arg.t = "int"
    THEN LET int_value == arg.n IN
         IF ~FitsWord(bld, int_value)
         THEN Raise("OverflowError", dst, index)
         ELSE IF Le(INT8_MIN, int_value) /\ Le(int_value, INT8_MAX)
         THEN pb_module_ble_append(dst, index, LeBytes(int_value, 1), 1,
                                   PB_BLE_BROADCAST_DATA_TYPE_INT)
         ELSE IF Le(INT16_MIN, int_value) /\ Le(int_value, INT16_MAX)
         THEN pb_module_ble_append(dst, index, LeBytes(int_value, 2), 2,
                                   PB_BLE_BROADCAST_DATA_TYPE_INT)
         ELSE IF bld.ptr = 4
         THEN pb_module_ble_append(dst, index, LeBytes(int_value, 4), 4,
                                   PB_BLE_BROADCAST_DATA_TYPE_INT)
         ELSE IF Le(INT32_MIN, int_value) /\ Le(int_value, INT32_MAX)
         THEN pb_module_ble_append(dst, index, LeBytes(int_value, 4), 4,
                                   PB_BLE_BROADCAST_DATA_TYPE_INT)
         ELSE Raise("OverflowError", dst, index)
    ELSE IF bld.float # "none" /\ arg.t = "float"
    THEN IF bld.float = "double"
         THEN pb_module_ble_append(dst, index, LeBytes(DoubleToSingle(arg), 4), 4,
                                   PB_BLE_BROADCAST_DATA_TYPE_FLOAT)
         ELSE pb_module_ble_append(dst, index, LeBytes(arg.n, 4), 4,
                                   PB_BLE_BROADCAST_DATA_TYPE_FLOAT)
    ELSE IF arg.t \in {"str", "bytes"}
    THEN pb_module_ble_append(dst, index, arg.b, Len(arg.b),
                              IF arg.t = "str" THEN PB_BLE_BROADCAST_DATA_TYPE_STR
                              ELSE PB_BLE_BROADCAST_DATA_TYPE_BYTES)
    ELSE Raise("TypeError", dst, index)

(***************************************************************************)
(* Value codec: decode.  mem is the memory that starts at data->data[0];   *)
(* the result carries the decoded value and the updated index.             *)
(***************************************************************************)
Decoded(v, index) == [err |-> "none", value |-> v, index |-> index]

\* mutant: bad data is returned as None
BadData_is_none(index) == Decoded(VNone, index)

BadData(index) == [err |-> "RuntimeError", value |-> VNone, index |-> index]
Aborted(index) == [err |-> "assert", value |-> VNone, index |-> index]

pb_module_ble_decode(bld, mem, index0) ==
    LET size == mem[index0 + 1] % 32
        data_type == mem[index0 + 1] \div 32
        index == index0 + 1
    IN  IF data_type = PB_BLE_BROADCAST_DATA_TYPE_NONE
        THEN IF bld.asserts /\ size # 0 THEN Aborted(index) ELSE Decoded(VNone, index)
        ELSE IF data_type = PB_BLE_BROADCAST_DATA_TYPE_TRUE
        THEN IF bld.asserts /\ size # 0 THEN Aborted(index) ELSE Decoded(VTrue, index)
        ELSE IF data_type = PB_BLE_BROADCAST_DATA_TYPE_FALSE
        THEN IF bld.asserts /\ size # 0 THEN Aborted(index) ELSE Decoded(VFalse, index)
        ELSE IF data_type = PB_BLE_BROADCAST_DATA_TYPE_INT
        THEN IF size = 1
             THEN Decoded(VInt(AsInt8(mem[index + 1])), index + 1)
             ELSE IF size = 2
             THEN Decoded(VInt(AsInt16(pbio_get_uint16_le(mem, index))), index + 2)
             ELSE IF size = 4
             THEN Decoded(VInt(AsInt32(pbio_get_uint32_le(mem, index))), index + 4)
             ELSE BadData(index)
        ELSE IF data_type = PB_BLE_BROADCAST_DATA_TYPE_FLOAT
        THEN IF bld.float # "none"
             THEN Decoded(VFloat(pbio_get_uint32_le(mem, index), 0), index + 4)
             ELSE BadData(index)
        ELSE IF data_type = PB_BLE_BROADCAST_DATA_TYPE_STR
        THEN Decoded(VStr(SubSeq(mem, index + 1, index + size)), index + size)
        ELSE IF data_type = PB_BLE_BROADCAST_DATA_TYPE_BYTES
        THEN Decoded(VBytes(SubSeq(mem, index + 1, index + size)), index + size)
        ELSE BadData(index)

(***************************************************************************)
(* State.                                                                  *)
(***************************************************************************)
VARIABLES
    build,              \* build configuration of the firmware
    observed_data,      \* the global pointer: "NULL" or "self"
    num_observed_data,  \* the global channel count
    self,               \* the BLE object: exists, broadcast_channel, nslots allocated
    mem,                \* memory at self->observed_data, one slot per channel index
    drv,                \* the Bluetooth driver: payload, flags, task
    pc,                 \* where the calling context is
    chan,               \* channel argument of the observe call in progress
    ret,                \* outcome of the last call that returned or raised
    seen,               \* per channel, the last advertisement the callback stored
    cur,                \* locals of a read in progress: index, i, items
    cx,                 \* codec exercise: value, buffer, start index, results
    motor_process,      \* the motor process: clock, timer, position, calls made
    motor_driver,       \* the ev3dev motor driver: motor_files, sysfs, last call
    motor_call          \* the motor module: motor_control_active, call in progress

\* the motor subsystems share no state with the BLE object
motor_vars == <<motor_process, motor_driver, motor_call>>

ble_vars == <<build, observed_data, num_observed_data, self, mem, drv, pc, chan, ret,
              seen, cur, cx>>

vars == <<build, observed_data, num_observed_data, self, mem, drv, pc, chan, ret,
          seen, cur, cx, motor_process, motor_driver, motor_call>>

(***************************************************************************)
(* The observation table.                                                  *)
(***************************************************************************)
Fill(n, b) == [k \in 1..n |-> b]

Slot(rssi, size, data) == [rssi |-> rssi, size |-> size, data |-> data]

\* a slot of freshly allocated (cleared) heap memory
ZeroSlot == Slot(0, 0, Fill(OBSERVED_DATA_MAX_SIZE, 0))

\* contents of memory that lies behind the allocation: cleared, or in use by
\* another heap object
ForeignSlot == Slot(-1, 2, <<32, 64>> \o Fill(OBSERVED_DATA_MAX_SIZE - 2, 0))
ForeignSlots == {ZeroSlot, ForeignSlot}

\* bytes of memory behind the last slot the model keeps
HeapByte == 255

\* longest distance decode can be asked to read from data[0]: index < size <= 255,
\* one header and 31 payload bytes
MemSpan == 255 + 1 + 31

RECURSIVE SlotBytes(_, _)
SlotBytes(m, k) ==
    IF k > Len(m) THEN <<>>
    ELSE <<m[k].rssi % 256, m[k].size>> \o m[k].data \o SlotBytes(m, k + 1)

\* the bytes at &observed_data[channel].data[0] and behind
ChannelMem(m, channel) ==
    LET tbl == m[channel + 1].data \o SlotBytes(m, channel + 2)
    IN  tbl \o Fill(MemSpan, HeapByte)

\* mutant: the channel byte is not compared with the channel count
handle_observe_event_any_channel(m, num, event_type, data, length, rssi) ==
    IF event_type = "ADV_NONCONN_IND" /\ length >= 5 /\ data[2] = MFG_SPECIFIC
       /\ pbio_get_uint16_le(data, 2) = LEGO_CID
    THEN LET channel == data[5] IN
         [m EXCEPT ![channel + 1] =
             Slot(rssi, (data[1] - 4) % 256,
                  SubSeq(data, 6, 5 + OBSERVED_DATA_MAX_SIZE))]
    ELSE m

\* mutant: the stored size counts the four bytes in front of the values
handle_observe_event_size_with_prefix(m, num, event_type, data, length, rssi) ==
    IF event_type = "ADV_NONCONN_IND" /\ length >= 5 /\ data[2] = MFG_SPECIFIC
       /\ pbio_get_uint16_le(data, 2) = LEGO_CID
    THEN LET channel == data[5] IN
         IF channel >= num
         THEN m
         ELSE [m EXCEPT ![channel + 1] =
                  Slot(rssi, data[1], SubSeq(data, 6, 5 + OBSERVED_DATA_MAX_SIZE))]
    ELSE m

\* mutant: the copy is two bytes too long and runs into the next slot
handle_observe_event_copies_too_much(m, num, event_type, data, length, rssi) ==
    IF event_type = "ADV_NONCONN_IND" /\ length >= 5 /\ data[2] = MFG_SPECIFIC
       /\ pbio_get_uint16_le(data, 2) = LEGO_CID
    THEN LET channel == data[5] IN
         IF channel >= num
         THEN m
         ELSE [m EXCEPT ![channel + 1] =
                            Slot(rssi, (data[1] - 4) % 256,
                                 SubSeq(data, 6, 5 + OBSERVED_DATA_MAX_SIZE)),
                        ![channel + 2] = [@ EXCEPT !.rssi = -1, !.size = HeapByte]]
    ELSE m

\* mutant: the company identifier is not compared
handle_observe_event_any_company(m, num, event_type, data, length, rssi) ==
    IF event_type = "ADV_NONCONN_IND" /\ length >= 5 /\ data[2] = MFG_SPECIFIC
    THEN LET channel == data[5] IN
         IF channel >= num
         THEN m
         ELSE [m EXCEPT ![channel + 1] =
                  Slot(rssi, (data[1] - 4) % 256,
                       SubSeq(data, 6, 5 + OBSERVED_DATA_MAX_SIZE))]
    ELSE m

handle_observe_event(m, num, event_type, data, length, rssi) ==
    IF event_type = "ADV_NONCONN_IND" /\ length >= 5 /\ data[2] = MFG_SPECIFIC
       /\ pbio_get_uint16_le(data, 2) = LEGO_CID
    THEN LET channel == data[5] IN
         IF channel >= num
         THEN m
         ELSE [m EXCEPT ![channel + 1] =
                  Slot(rssi, (data[1] - 4) % 256,
                       SubSeq(data, 6, 5 + OBSERVED_DATA_MAX_SIZE))]
    ELSE m

\* does the callback store the advertisement (and for which channel)
Accepts(num, ad) ==
    /\ ad.event_type = "ADV_NONCONN_IND" /\ ad.length >= 5
    /\ ad.data[2] = MFG_SPECIFIC /\ pbio_get_uint16_le(ad.data, 2) = LEGO_CID
    /\ ad.data[5] < num

(***************************************************************************)
(* broadcast: the payload builder.                                         *)
(***************************************************************************)
RECURSIVE EncodeArgs(_, _, _, _, _)
EncodeArgs(bld, dst, index, args, i) ==
    IF i > Len(args) THEN [err |-> "none", dst |-> dst, index |-> index]
    ELSE LET r == pb_module_ble_encode(bld, dst, index, args[i]) IN
         IF r.err # "none" THEN r ELSE EncodeArgs(bld, r.dst, r.index, args, i + 1)

\* contents of the uninitialised stack buffer `value`
StackByte == 170

\* mutant: the length byte counts itself
BuildValue_length_counts_itself(bld, broadcast_channel, args) ==
    LET r == EncodeArgs(bld, Fill(OBSERVED_DATA_MAX_SIZE, StackByte), 0, args, 1)
        index == r.index
        data == <<(index + 5) % 256, MFG_SPECIFIC, LEGO_CID % 256, LEGO_CID \div 256,
                  broadcast_channel>> \o r.dst
    IN  [err |-> r.err, size |-> index + 5, data |-> data, index |-> index]

\* lines 213-227: the value handed to pbdrv_bluetooth_start_broadcasting
BuildValue(bld, broadcast_channel, args) ==
    LET r == EncodeArgs(bld, Fill(OBSERVED_DATA_MAX_SIZE, StackByte), 0, args, 1)
        index == r.index
        data == <<(index + 4) % 256, MFG_SPECIFIC, LEGO_CID % 256, LEGO_CID \div 256,
                  broadcast_channel>> \o r.dst
    IN  [err |-> r.err, size |-> index + 5, data |-> data, index |-> index]

\* what the driver puts on the air: the first `size` bytes
OnAir(v) == SubSeq(v.data, 1, v.size)

(***************************************************************************)
(* observe: the read loop.                                                 *)
(***************************************************************************)
RECURSIVE ReadLoop(_, _, _, _, _, _)
ReadLoop(bld, m, size, index, i, items) ==
    IF i >= OBSERVED_DATA_MAX_SIZE \/ index >= size
    THEN [err |-> "none", items |-> items, index |-> index]
    ELSE LET d == pb_module_ble_decode(bld, m, index) IN
         IF d.err # "none"
         THEN [err |-> d.err, items |-> <<>>, index |-> d.index]
         ELSE ReadLoop(bld, m, size, d.index, i + 1, Append(items, d.value))

NoVal == [rssi |-> 0, items |-> <<>>]

\* lines 337-357 on the table as it is
ReadChannel(bld, m, channel) ==
    LET ch_data == m[channel + 1]
        r == ReadLoop(bld, ChannelMem(m, channel), ch_data.size, 0, 0, <<>>)
    IN  IF r.err # "none" THEN [err |-> r.err, val |-> NoVal]
        ELSE [err |-> "none", val |-> [rssi |-> ch_data.rssi, items |-> r.items]]

(***************************************************************************)
(* Inputs.                                                                 *)
(***************************************************************************)
\* what is known of the advertisement a slot holds: whether a broadcast built
\* it, its rssi and values, and st: "new" when it has not been read, "over"
\* when it has not been read and replaced another one that had not been read,
\* "read" once observe has read it
NoAd == [built |-> FALSE, rssi |-> 0, vs |-> <<>>, st |-> "read"]

Ad(event_type, data, length, rssi, built, vs) ==
    [event_type |-> event_type, data |-> data, length |-> length, rssi |-> rssi,
     tag |-> [built |-> built, rssi |-> rssi, vs |-> vs, st |-> "new"]]

\* bytes of the driver's receive buffer behind the advertisement
RxByte == 255

Pad(bytes) == bytes \o Fill(MAX_ADV_DATA_SIZE - Len(bytes), RxByte)

\* the advertisement another hub sends with broadcast(args) on `channel`
Sent(bld, channel, args, rssi) ==
    LET v == BuildValue(bld, channel, args)
    IN  Ad("ADV_NONCONN_IND", Pad(OnAir(v)), v.size, rssi, TRUE, args)

\* a hand-made advertisement
Raw(event_type, bytes, rssi) == Ad(event_type, Pad(bytes), Len(bytes), rssi, FALSE, <<>>)

Str(n, first) == [k \in 1..n |-> first + k - 1]

SeqA == <<VTrue, VInt(I(5))>>
SeqB == <<VStr(Str(2, 97)), VNone, VInt(I(-129))>>

GoodAds(bld) ==
    {Sent(bld, c, SeqA, -40) : c \in 0..MaxObserve + 1} \cup {Sent(bld, 0, SeqB, -70)}

\* advertisements the filter has to drop
ForeignAds ==
    { Raw("ADV_IND", <<6, 255, 151, 3, 0, 32, 64>>, -50),
      Raw("ADV_NONCONN_IND", <<3, 255, 151, 3>>, -51),
      Raw("ADV_NONCONN_IND", <<6, 22, 151, 3, 0, 32, 64>>, -52),
      Raw("ADV_NONCONN_IND", <<6, 255, 152, 3, 0, 32, 64>>, -53),
      Raw("ADV_NONCONN_IND", <<6, 255, 151, 4, 0, 32, 64>>, -54),
      Raw("ADV_NONCONN_IND", <<6, 255, 151, 3, 255, 32, 64>>, -55) }

\* advertisements that pass the filter with a length byte a sender never writes
OddAds ==
    { Raw("ADV_NONCONN_IND", <<0, 255, 151, 3, 0>>, -60),
      Raw("ADV_NONCONN_IND", <<31, 255, 151, 3, 0, 32, 64>>, -61) }

Ads(bld) == GoodAds(bld) \cup ForeignAds \cup OddAds

\* the same sets, tabulated per build
GoodAdsOf == [bld \in Builds |-> GoodAds(bld)]
AdsOf == [bld \in Builds |-> Ads(bld)]

\* an int that does not fit a 32-bit mp_int_t and whose low 32 bits are 0
BeyondWord == <<65536, 0>>

BroadcastChannelArgs == {I(-1), I(0), I(MAX_CHANNEL_NUMBER + 1), BeyondWord}
ObserveChannelArgs ==
    {I(k) : k \in {-1} \cup (0..MaxObserve) \cup {MAX_CHANNEL_NUMBER + 1}}
ObserveArgs == {I(k) : k \in {-1} \cup (0..MaxObserve + 1)} \cup {BeyondWord}

HasFloat(args) == \E k \in 1..Len(args) : args[k].t = "float"

(***************************************************************************)
(* Initial state: the globals are zero, no object exists, driver idle.     *)
(***************************************************************************)
NoSelf == [exists |-> FALSE, broadcast_channel |-> 0, nslots |-> 0]
NoRet == [op |-> "none", err |-> "none", val |-> NoVal, chan |-> 0, src |-> NoAd, n |-> 0,
          args |-> <<>>]
NoCur == [index |-> 0, i |-> 0, items |-> <<>>]
NoEnc == [err |-> "none", dst |-> <<>>, index |-> 0]
NoDec == [err |-> "none", value |-> VNone, index |-> 0]
NoCx == [step |-> "off", v |-> VNone, index |-> 0, enc |-> NoEnc, dec |-> NoDec]
\* rx: what the callback did with the last advertisement (stored / dropped)
DrvIdle == [adv |-> <<>>, broadcasting |-> FALSE, observing |-> "off", task |-> "none",
            rx |-> "none"]

Returned(op, err) == [NoRet EXCEPT !.op = op, !.err = err]

\* Motor ports.  Port index 0 is port 'A' (motor.c:73, 88); the last port is a
\* configuration value, and the model takes NumMotorPorts ports.
PBDRV_CONFIG_FIRST_MOTOR_PORT == 65

PBDRV_CONFIG_LAST_MOTOR_PORT == PBDRV_CONFIG_FIRST_MOTOR_PORT + NumMotorPorts - 1

PORT_TO_IDX(p) == p - PBDRV_CONFIG_FIRST_MOTOR_PORT

PortIndexes == 0..(NumMotorPorts - 1)

\* motor_process.c:16: the process has one static event timer, not yet set
NoTimer == [start |-> 0, interval |-> 0, p |-> "PROCESS_NONE"]

\* the motor process before pbio_motor_process_start: clock is the system
\* clock, lc the place the thread resumes at, ev the last event it was given,
\* posted how many timer events are in the event queue, calls the calls it
\* made, expiries how often the timer expired, at the clock of the last cycle
MotorProcessOff ==
    [clock |-> 0, timer |-> NoTimer, lc |-> "off", ev |-> "none", posted |-> 0,
     calls |-> <<>>, expiries |-> 0, at |-> -1]

\* motor.c:23-27: no port is connected, and the flags are zero
NoMotorFile == [connected |-> FALSE, coasting |-> FALSE]

\* the sysfs node of the motor of a port: the command it obeys, its stop
\* action and the last duty value it took
NoMotorNode == [command |-> "stop", stop_action |-> "coast", duty_cycle_sp |-> 0]

NoDriverCall == [op |-> "none", port |-> 0, err |-> "none", io |-> <<>>, value |-> 0]

MotorDriverOff ==
    [motor_files |-> [i \in PortIndexes |-> NoMotorFile],
     sysfs |-> [i \in PortIndexes |-> NoMotorNode],
     inited |-> FALSE,
     last |-> NoDriverCall]

\* the motor module: no maneuver is active and no call is in progress
MotorCallIdle ==
    [motor_control_active |-> [i \in PortIndexes |-> "PBIO_MOTOR_CONTROL_COASTING"],
     pc |-> "idle", cmd |-> "none", port |-> PBDRV_CONFIG_FIRST_MOTOR_PORT,
     wait |-> "none", err |-> "none", delays |-> 0,
     ret |-> [raised |-> "none", value |-> "none"]]

InitMotors ==
    /\ motor_process = MotorProcessOff
    /\ motor_driver = MotorDriverOff
    /\ motor_call = MotorCallIdle

\* the builds the whole program is run on (no value of the program inputs is a float)
ProgramBuilds == {bld \in Builds : bld.float # "none"}

InitProgram ==
    /\ build \in ProgramBuilds
    /\ observed_data = "NULL"
    /\ num_observed_data = 0
    /\ self = NoSelf
    /\ mem = <<>>
    /\ drv = DrvIdle
    /\ pc = "idle"
    /\ chan = 0
    /\ ret = NoRet
    /\ seen = <<>>
    /\ cur = NoCur
    /\ InitMotors

Init == InitProgram /\ cx = NoCx

(***************************************************************************)
(* Lifecycle.                                                              *)
(***************************************************************************)
\* mp_obj_malloc_var(pb_obj_BLE_t, observed_data_t, var_num, ...): room for
\* var_num slots, cleared
AllocatedSlots(var_num) == [k \in 1..var_num |-> ZeroSlot]

\* mutant: only the lower bound is checked
InChannelRange_no_upper_bound(n) == Le(I(0), n)

\* is the converted argument within 0..MAX_CHANNEL_NUMBER
InChannelRange(n) == Le(I(0), n) /\ Le(n, I(MAX_CHANNEL_NUMBER))

pb_type_BLE_new(broadcast_channel_in, last_observe_channel_in) ==
    /\ pc = "idle"
    /\ LET b == mp_obj_get_int(build, broadcast_channel_in)
           m == mp_obj_get_int(build, last_observe_channel_in)
           broadcast_channel == b.v[2]
           last_observe_channel == m.v[2]
       IN
       IF observed_data # "NULL" /\ build.asserts
       THEN /\ ret' = Returned("new", "assert")
            /\ UNCHANGED <<observed_data, num_observed_data, self, mem, seen>>
       ELSE IF b.err # "none"
       THEN /\ ret' = Returned("new", b.err)
            /\ UNCHANGED <<observed_data, num_observed_data, self, mem, seen>>
       ELSE IF ~InChannelRange(b.v)
       THEN /\ ret' = Returned("new", "ValueError")
            /\ UNCHANGED <<observed_data, num_observed_data, self, mem, seen>>
       ELSE IF m.err # "none"
       THEN /\ ret' = Returned("new", m.err)
            /\ UNCHANGED <<observed_data, num_observed_data, self, mem, seen>>
       ELSE IF ~InChannelRange(m.v)
       THEN /\ ret' = Returned("new", "ValueError")
            /\ UNCHANGED <<observed_data, num_observed_data, self, mem, seen>>
       ELSE /\ self' = [exists |-> TRUE, broadcast_channel |-> broadcast_channel,
                        nslots |-> last_observe_channel]
            /\ observed_data' = "self"
            /\ num_observed_data' = (last_observe_channel + 1) % 256
            /\ \E behind \in ForeignSlots :
                  mem' = Append(AllocatedSlots(last_observe_channel), behind)
            /\ seen' = [k \in 1..last_observe_channel + 1 |-> NoAd]
            /\ ret' = Returned("new", "none")
    /\ UNCHANGED <<motor_vars, build, drv, pc, chan, cur, cx>>

\* mutant: the channel count is not reset
pb_type_BLE_cleanup_keeps_count ==
    /\ pc = "idle"
    /\ drv' = [drv EXCEPT !.broadcasting = FALSE,
                          !.observing = IF @ = "on" THEN "stopping" ELSE @]
    /\ observed_data' = "NULL"
    /\ ret' = Returned("cleanup", "none")
    /\ UNCHANGED <<motor_vars, build, num_observed_data, mem, seen, self, pc, chan, cur, cx>>

pb_type_BLE_cleanup ==
    /\ pc = "idle"
    /\ drv' = [drv EXCEPT !.broadcasting = FALSE,
                          !.observing = IF @ = "on" THEN "stopping" ELSE @]
    /\ observed_data' = "NULL"
    /\ num_observed_data' = 0
    /\ mem' = <<>>
    /\ seen' = <<>>
    /\ ret' = Returned("cleanup", "none")
    /\ UNCHANGED <<motor_vars, build, self, pc, chan, cur, cx>>

\* memory behind the allocation belongs to someone else, who writes to it
HeapClobber ==
    /\ observed_data # "NULL"
    /\ self.nslots < num_observed_data
    /\ \E s \in ForeignSlots :
          /\ mem[num_observed_data] # s
          /\ mem' = [mem EXCEPT ![num_observed_data] = s]
    /\ UNCHANGED <<motor_vars, build, observed_data, num_observed_data, self, drv, pc, chan, ret,
                   seen, cur, cx>>

(***************************************************************************)
(* The driver.                                                             *)
(***************************************************************************)
DriverCompleteTask ==
    /\ drv.task = "pending"
    /\ drv' = [drv EXCEPT !.task = "complete"]
    /\ UNCHANGED <<motor_vars, build, observed_data, num_observed_data, self, mem, pc, chan, ret,
                   seen, cur, cx>>

DriverStopped ==
    /\ drv.observing = "stopping"
    /\ drv' = [drv EXCEPT !.observing = "off"]
    /\ UNCHANGED <<motor_vars, build, observed_data, num_observed_data, self, mem, pc, chan, ret,
                   seen, cur, cx>>

Latest(old, tag) == tag

\* what `seen` keeps when the unread advertisements are tracked: "over" marks
\* an advertisement stored over an unread one
Stored(old, tag) ==
    [tag EXCEPT !.st = IF old.st = "read" THEN "new"
                       ELSE IF old.rssi # tag.rssi THEN "over" ELSE old.st]

Read(old) == [old EXCEPT !.st = "read"]

\* the callback runs; with `history` the record in `seen` tells whether the
\* stored advertisement replaced an unread one
OnAdvertisementAs(ad, history) ==
    /\ drv.observing # "off"
    /\ mem' = handle_observe_event(mem, num_observed_data, ad.event_type, ad.data,
                                   ad.length, ad.rssi)
    /\ drv' = [drv EXCEPT !.rx = IF Accepts(num_observed_data, ad) THEN "stored"
                                 ELSE "dropped"]
    /\ seen' = IF Accepts(num_observed_data, ad)
               THEN [seen EXCEPT ![ad.data[5] + 1] =
                        IF history THEN Stored(@, ad.tag) ELSE Latest(@, ad.tag)]
               ELSE seen
    /\ UNCHANGED <<motor_vars, build, observed_data, num_observed_data, self, pc, chan, ret, cur, cx>>

OnAdvertisement(ad) == OnAdvertisementAs(ad, FALSE)

(***************************************************************************)
(* broadcast and observe.                                                  *)
(***************************************************************************)
\* variant: the records of the call are queued behind what is on the air
pb_module_ble_broadcast_queues(args) ==
    /\ pc = "idle"
    /\ self.exists
    /\ build.float # "none" \/ ~HasFloat(args)
    /\ LET value == BuildValue(build, self.broadcast_channel, args) IN
       IF value.err # "none"
       THEN /\ ret' = [Returned("broadcast", value.err) EXCEPT !.n = value.index,
                                                              !.args = args]
            /\ UNCHANGED <<drv, pc>>
       ELSE /\ drv' = [drv EXCEPT !.adv = IF @ = <<>> THEN OnAir(value)
                                          ELSE @ \o SubSeq(OnAir(value), 6, value.size),
                                  !.broadcasting = TRUE, !.task = "pending"]
            /\ pc' = "broadcast_wait"
            /\ ret' = ret
    /\ UNCHANGED <<motor_vars, build, observed_data, num_observed_data, self, mem, chan, seen,
                   cur, cx>>

\* variant: the call waits for a task it never gave to the driver
pb_module_ble_broadcast_no_task(args) ==
    /\ pc = "idle"
    /\ self.exists
    /\ build.float # "none" \/ ~HasFloat(args)
    /\ LET value == BuildValue(build, self.broadcast_channel, args) IN
       IF value.err # "none"
       THEN /\ ret' = [Returned("broadcast", value.err) EXCEPT !.n = value.index,
                                                              !.args = args]
            /\ UNCHANGED <<drv, pc>>
       ELSE /\ drv' = [drv EXCEPT !.adv = OnAir(value), !.broadcasting = TRUE]
            /\ pc' = "broadcast_wait"
            /\ ret' = ret
    /\ UNCHANGED <<motor_vars, build, observed_data, num_observed_data, self, mem, chan, seen,
                   cur, cx>>

pb_module_ble_broadcast(args) ==
    /\ pc = "idle"
    /\ self.exists
    /\ build.float # "none" \/ ~HasFloat(args)
    /\ LET value == BuildValue(build, self.broadcast_channel, args) IN
       IF value.err # "none"
       THEN /\ ret' = [Returned("broadcast", value.err) EXCEPT !.n = value.index,
                                                              !.args = args]
            /\ UNCHANGED <<drv, pc>>
       ELSE /\ drv' = [drv EXCEPT !.adv = OnAir(value), !.broadcasting = TRUE,
                                  !.task = "pending"]
            /\ pc' = "broadcast_wait"
            /\ ret' = ret
    /\ UNCHANGED <<motor_vars, build, observed_data, num_observed_data, self, mem, chan, seen,
                   cur, cx>>

\* variant: the call returns without waiting for its task
pb_module_ble_broadcast_return_no_wait ==
    /\ pc = "broadcast_wait"
    /\ drv' = [drv EXCEPT !.task = "none"]
    /\ pc' = "idle"
    /\ ret' = Returned("broadcast", "none")
    /\ UNCHANGED <<motor_vars, build, observed_data, num_observed_data, self, mem, chan, seen,
                   cur, cx>>

pb_module_ble_broadcast_return ==
    /\ pc = "broadcast_wait"
    /\ drv.task = "complete"
    /\ drv' = [drv EXCEPT !.task = "none"]
    /\ pc' = "idle"
    /\ ret' = Returned("broadcast", "none")
    /\ UNCHANGED <<motor_vars, build, observed_data, num_observed_data, self, mem, chan, seen,
                   cur, cx>>

\* variant: observing is started before the channel is checked
pb_module_ble_observe_starts_first(channel_in) ==
    /\ pc = "idle"
    /\ self.exists
    /\ LET channel == mp_obj_get_int_truncated(build, channel_in) IN
       IF ~Le(I(0), channel) \/ Le(I(num_observed_data), channel)
       THEN /\ ret' = Returned("observe", "InvalidArg")
            /\ drv' = [drv EXCEPT !.observing = "on"]
            /\ UNCHANGED <<pc, chan>>
       ELSE /\ drv' = [drv EXCEPT !.observing = "on", !.task = "pending"]
            /\ pc' = "observe_wait"
            /\ chan' = channel[2]
            /\ ret' = ret
    /\ UNCHANGED <<motor_vars, build, observed_data, num_observed_data, self, mem, seen, cur, cx>>

pb_module_ble_observe(channel_in) ==
    /\ pc = "idle"
    /\ self.exists
    /\ LET channel == mp_obj_get_int_truncated(build, channel_in) IN
       IF ~Le(I(0), channel) \/ Le(I(num_observed_data), channel)
       THEN /\ ret' = Returned("observe", "InvalidArg")
            /\ UNCHANGED <<drv, pc, chan>>
       ELSE /\ drv' = [drv EXCEPT !.observing = "on", !.task = "pending"]
            /\ pc' = "observe_wait"
            /\ chan' = channel[2]
            /\ ret' = ret
    /\ UNCHANGED <<motor_vars, build, observed_data, num_observed_data, self, mem, seen, cur, cx>>

AsItIs(old) == old

\* lines 337-357 run without interruption once pb_wait_task has returned;
\* with `history` the advertisement that was read is marked as read in `seen`
pb_module_ble_observe_read_as(history) ==
    /\ pc = "observe_wait"
    /\ drv.task = "complete"
    /\ LET r == ReadChannel(build, mem, chan) IN
       ret' = [op |-> "observe", err |-> r.err, val |-> r.val, chan |-> chan,
               src |-> seen[chan + 1], n |-> 0, args |-> <<>>]
    /\ seen' = [seen EXCEPT ![chan + 1] = IF history THEN Read(@) ELSE AsItIs(@)]
    /\ drv' = [drv EXCEPT !.task = "none"]
    /\ pc' = "idle"
    /\ UNCHANGED <<motor_vars, build, observed_data, num_observed_data, self, mem, chan, cur, cx>>

pb_module_ble_observe_read == pb_module_ble_observe_read_as(FALSE)

(***************************************************************************)
(* The program under cooperative scheduling: the callback runs between     *)
(* calls and while a call waits for its task.                              *)
(***************************************************************************)
BroadcastArgs == {SeqA}

Construct ==
    \E b \in BroadcastChannelArgs, m \in ObserveChannelArgs : pb_type_BLE_new(b, m)

Broadcast == \E args \in BroadcastArgs : pb_module_ble_broadcast(args)

Observe == \E c \in ObserveArgs : pb_module_ble_observe(c)

Advertisement == \E ad \in AdsOf[build] : OnAdvertisement(ad)

Next ==
    \/ Construct
    \/ pb_type_BLE_cleanup
    \/ HeapClobber
    \/ DriverCompleteTask
    \/ DriverStopped
    \/ Advertisement
    \/ Broadcast
    \/ pb_module_ble_broadcast_return
    \/ Observe
    \/ pb_module_ble_observe_read

Spec == Init /\ [][Next]_vars

(***************************************************************************)
(* The broadcasting half on its own, with a wide choice of arguments.      *)
(***************************************************************************)
Repeat(n, v) == [k \in 1..n |-> v]

\* 0.0, 1.0, -3.1415927 and the single below -2.0
FloatBits == {<<0, 0>>, <<16256, 0>>, <<49225, 4059>>, <<49151, 65535>>}

WideBroadcastArgs ==
    { <<>>, SeqA, SeqB,
      <<VInt(<<32768, 0>>)>>,
      <<VFalse, VInt(<<-32769, 65535>>)>>,
      <<VTrue, VObj>>,
      <<VObj>>,
      <<VBytes(Str(OBSERVED_DATA_MAX_SIZE, 1)), VObj>>,
      <<VInt(<<32768, 0>>), VObj>>,
      <<VFloat(<<16256, 0>>, 0), VInt(I(32768)), VFloat(<<49225, 4059>>, 0)>>,
      <<VBytes(Str(OBSERVED_DATA_MAX_SIZE - 1, 1))>>,
      <<VBytes(Str(OBSERVED_DATA_MAX_SIZE, 1))>>,
      <<VStr(Str(OBSERVED_DATA_MAX_SIZE - 2, 65)), VTrue, VFalse>>,
      <<VStr(Str(OBSERVED_DATA_MAX_SIZE - 3, 65)), VInt(I(300))>>,
      <<VStr(Str(OBSERVED_DATA_MAX_SIZE - 3, 65)), VInt(I(3)), VObj>>,
      Repeat(OBSERVED_DATA_MAX_SIZE, VTrue),
      Repeat(OBSERVED_DATA_MAX_SIZE + 1, VNone) }

WideBroadcastChannelArgs ==
    {I(-1), I(0), I(MAX_CHANNEL_NUMBER), I(MAX_CHANNEL_NUMBER + 1)}

InitBroadcast ==
    /\ InitProgram
    /\ cx = NoCx

ConstructWide ==
    \E b \in WideBroadcastChannelArgs, m \in {I(-1), I(0)} : pb_type_BLE_new(b, m)

BroadcastWide == \E args \in WideBroadcastArgs : pb_module_ble_broadcast(args)

NextBroadcast ==
    \/ ConstructWide
    \/ pb_type_BLE_cleanup
    \/ DriverCompleteTask
    \/ BroadcastWide
    \/ pb_module_ble_broadcast_return

SpecBroadcast == InitBroadcast /\ [][NextBroadcast]_vars

(***************************************************************************)
(* The codec on its own: encode one value at a start index, then decode    *)
(* the record from the same start index.                                   *)
(***************************************************************************)
IntInputs ==
    {I(k) : k \in {-32769, -32768, -129, -128, -1, 0, 5, 127, 128, 255, 256, 32767,
                   32768, 65536}}
    \cup {<<-32768, 0>>, <<-32769, 65535>>, <<32767, 65535>>, <<32768, 0>>, <<65535, 65535>>}

StrLens == (0..MaxStrLen) \cup {OBSERVED_DATA_MAX_SIZE - 1, OBSERVED_DATA_MAX_SIZE, 40}

CodecValues(bld) ==
    {VNone, VTrue, VFalse, VObj}
    \cup {VInt(n) : n \in IntInputs}
    \cup (IF bld.float = "none" THEN {}
          ELSE {VFloat(f, x) : f \in FloatBits,
                               x \in IF bld.float = "double" THEN {0, 1, 3} ELSE {0}})
    \cup {VStr(Str(n, 97)) : n \in StrLens}
    \cup {VBytes(Str(n, 250 - n)) : n \in StrLens}

StartBuffer == Fill(OBSERVED_DATA_MAX_SIZE, StackByte)

InitCodec ==
    /\ build \in Builds
    /\ observed_data = "NULL"
    /\ num_observed_data = 0
    /\ self = NoSelf
    /\ mem = <<>>
    /\ drv = DrvIdle
    /\ pc = "idle"
    /\ chan = 0
    /\ ret = NoRet
    /\ seen = <<>>
    /\ cur = NoCur
    /\ InitMotors
    /\ \E v \in CodecValues(build), index \in 0..OBSERVED_DATA_MAX_SIZE :
          cx = [NoCx EXCEPT !.step = "start", !.v = v, !.index = index]

CodecEncode ==
    /\ cx.step = "start"
    /\ cx' = [cx EXCEPT !.step = "encoded",
                        !.enc = pb_module_ble_encode(build, StartBuffer, cx.index, cx.v)]
    /\ UNCHANGED <<motor_vars, build, observed_data, num_observed_data, self, mem, drv, pc, chan,
                   ret, seen, cur>>

\* the record is read back from a data buffer that holds the encoded bytes
CodecDecode ==
    /\ cx.step = "encoded"
    /\ cx.enc.err = "none"
    /\ cx' = [cx EXCEPT !.step = "decoded",
                        !.dec = pb_module_ble_decode(
                                    build, cx.enc.dst \o Fill(MemSpan, HeapByte), cx.index)]
    /\ UNCHANGED <<motor_vars, build, observed_data, num_observed_data, self, mem, drv, pc, chan,
                   ret, seen, cur>>

NextCodec == CodecEncode \/ CodecDecode

SpecCodec == InitCodec /\ [][NextCodec]_vars

(***************************************************************************)
(* The observing half when the callback runs in another execution context  *)
(* than the caller: it can run between any two steps of the read.          *)
(***************************************************************************)
pb_module_ble_observe_begin ==
    /\ pc = "observe_wait"
    /\ drv.task = "complete"
    /\ drv' = [drv EXCEPT !.task = "none"]
    /\ pc' = "observe_loop"
    /\ cur' = NoCur
    /\ UNCHANGED <<motor_vars, build, observed_data, num_observed_data, self, mem, chan, ret, seen, cx>>

\* one iteration of the loop of lines 345-351 that does not break
\* variant: the loop has no bound on the number of decode steps
pb_module_ble_observe_step_no_cap ==
    /\ pc = "observe_loop"
    /\ cur.index < mem[chan + 1].size
    /\ LET d == pb_module_ble_decode(build, ChannelMem(mem, chan), cur.index) IN
       IF d.err # "none"
       THEN /\ ret' = [op |-> "observe", err |-> d.err, val |-> NoVal, chan |-> chan,
                       src |-> seen[chan + 1], n |-> 0, args |-> <<>>]
            /\ pc' = "idle"
            /\ cur' = NoCur
       ELSE /\ cur' = [index |-> d.index, i |-> cur.i + 1,
                       items |-> Append(cur.items, d.value)]
            /\ UNCHANGED <<pc, ret>>
    /\ UNCHANGED <<motor_vars, build, observed_data, num_observed_data, self, mem, drv, chan, seen, cx>>

pb_module_ble_observe_step ==
    /\ pc = "observe_loop"
    /\ cur.i < OBSERVED_DATA_MAX_SIZE
    /\ cur.index < mem[chan + 1].size
    /\ LET d == pb_module_ble_decode(build, ChannelMem(mem, chan), cur.index) IN
       IF d.err # "none"
       THEN /\ ret' = [op |-> "observe", err |-> d.err, val |-> NoVal, chan |-> chan,
                       src |-> seen[chan + 1], n |-> 0, args |-> <<>>]
            /\ pc' = "idle"
            /\ cur' = NoCur
       ELSE /\ cur' = [index |-> d.index, i |-> cur.i + 1,
                       items |-> Append(cur.items, d.value)]
            /\ UNCHANGED <<pc, ret>>
    /\ UNCHANGED <<motor_vars, build, observed_data, num_observed_data, self, mem, drv, chan, seen, cx>>

\* the loop ends; lines 353-357 read the rssi and build the result
pb_module_ble_observe_finish ==
    /\ pc = "observe_loop"
    /\ cur.i >= OBSERVED_DATA_MAX_SIZE \/ cur.index >= mem[chan + 1].size
    /\ ret' = [op |-> "observe", err |-> "none",
               val |-> [rssi |-> mem[chan + 1].rssi, items |-> cur.items],
               chan |-> chan, src |-> seen[chan + 1], n |-> 0, args |-> <<>>]
    /\ pc' = "idle"
    /\ cur' = NoCur
    /\ UNCHANGED <<motor_vars, build, observed_data, num_observed_data, self, mem, drv, chan, seen, cx>>

ConstructValid ==
    \E m \in 0..MaxObserve : pb_type_BLE_new(I(0), I(m))

ObserveValid == \E c \in 0..MaxObserve : pb_module_ble_observe(I(c))

AdvertisementGood == \E ad \in GoodAdsOf[build] : OnAdvertisement(ad)

NextPreempt ==
    \/ ConstructValid
    \/ pb_type_BLE_cleanup
    \/ DriverCompleteTask
    \/ DriverStopped
    \/ AdvertisementGood
    \/ ObserveValid
    \/ pb_module_ble_observe_begin
    \/ pb_module_ble_observe_step
    \/ pb_module_ble_observe_finish

SpecPreempt == Init /\ [][NextPreempt]_vars

(***************************************************************************)
(* The observing half with a record of which stored advertisements observe *)
(* has read.                                                               *)
(***************************************************************************)
\* the record of the advertisement that replaces the one recorded as old
AdvertisementStored == \E ad \in AdsOf[build] : OnAdvertisementAs(ad, TRUE)

pb_module_ble_observe_read_marked == pb_module_ble_observe_read_as(TRUE)

NextUnread ==
    \/ ConstructValid
    \/ pb_type_BLE_cleanup
    \/ HeapClobber
    \/ DriverCompleteTask
    \/ DriverStopped
    \/ AdvertisementStored
    \/ ObserveValid
    \/ pb_module_ble_observe_read_marked

SpecUnread == Init /\ [][NextUnread]_vars

(***************************************************************************)
(* The life cycle: construct, observe and cleanup with every argument,     *)
(* and one sender.                                                         *)
(***************************************************************************)
AdvertisementSeqA ==
    \E ad \in {a \in GoodAdsOf[build] : a.tag.vs = SeqA} : OnAdvertisement(ad)

NextLifecycle ==
    \/ Construct
    \/ pb_type_BLE_cleanup
    \/ HeapClobber
    \/ DriverCompleteTask
    \/ DriverStopped
    \/ AdvertisementSeqA
    \/ Observe
    \/ pb_module_ble_observe_read

SpecLifecycle == Init /\ [][NextLifecycle]_vars

(***************************************************************************)
(* Observing a sender that does not follow the record format: the payload  *)
(* behind the 5-byte prefix is arbitrary.                                  *)
(***************************************************************************)
\* the advertisement with `payload` behind the prefix for channel 0
Carrying(payload, rssi) ==
    Raw("ADV_NONCONN_IND",
        <<4 + Len(payload), MFG_SPECIFIC, LEGO_CID % 256, LEGO_CID \div 256, 0>>
            \o payload, rssi)

\* well-formed records to put in front: none, or the int 5
RecordPrefixes == {<<>>, <<97, 5>>}

\* headers with tag 7, and Int headers with a length other than 1, 2, 4
UnknownRecords ==
    {<<224>>, <<226, 1, 2>>, <<255>>, <<96>>, <<99, 1, 2, 3>>, <<101, 1, 2, 3, 4, 5>>,
     <<127>>}

\* Float headers with a length other than 4; None, True and False headers
\* with a length other than 0
InconsistentRecords ==
    {<<128>>, <<130, 1, 2>>, <<133, 0, 0, 128, 63, 9>>, <<1, 7>>, <<35, 1, 2, 3>>,
     <<65, 9>>}

CorruptAds ==
    {Carrying(pre \o bad, -80) :
        pre \in RecordPrefixes, bad \in UnknownRecords \cup InconsistentRecords}
    \cup {Carrying(<<32>> \o bad \o <<64>>, -80) : bad \in {<<99, 1, 2, 3>>, <<130, 1, 2>>}}
    \cup {Carrying(<<32, 97, 5>>, -81)}

InitCorrupt ==
    /\ build \in Builds
    /\ observed_data = "NULL"
    /\ num_observed_data = 0
    /\ self = NoSelf
    /\ mem = <<>>
    /\ drv = DrvIdle
    /\ pc = "idle"
    /\ chan = 0
    /\ ret = NoRet
    /\ seen = <<>>
    /\ cur = NoCur
    /\ InitMotors
    /\ cx = NoCx

AdvertisementCorrupt == \E ad \in CorruptAds : OnAdvertisement(ad)

NextCorrupt ==
    \/ ConstructValid
    \/ DriverCompleteTask
    \/ AdvertisementCorrupt
    \/ ObserveValid
    \/ pb_module_ble_observe_read

SpecCorrupt == InitCorrupt /\ [][NextCorrupt]_vars

(***************************************************************************)
(* Calls that fail, next to calls that succeed: broadcasts that raise, and *)
(* observe on channels that hold corrupt data or do not exist.             *)
(***************************************************************************)
\* values that make the call raise TypeError, ValueError and OverflowError
FailingBroadcastArgs ==
    { <<VTrue, VObj>>,
      <<VBytes(Str(OBSERVED_DATA_MAX_SIZE, 1))>>,
      <<VInt(<<32768, 0>>)>> }

BroadcastFailing == \E args \in FailingBroadcastArgs : pb_module_ble_broadcast(args)

\* channel 0 receives records decode rejects and the advertisement of a
\* broadcast without values, every channel well-formed ones
MixedAds(bld) ==
    GoodAds(bld) \cup {Carrying(<<224>>, -80), Carrying(<<97, 5, 99, 1, 2, 3>>, -80)}
    \cup {Sent(bld, 0, <<>>, -30)}

MixedAdsOf == [bld \in Builds |-> MixedAds(bld)]

AdvertisementMixed == \E ad \in MixedAdsOf[build] : OnAdvertisement(ad)

NextFailures ==
    \/ ConstructValid
    \/ HeapClobber
    \/ DriverCompleteTask
    \/ AdvertisementMixed
    \/ Broadcast
    \/ BroadcastFailing
    \/ pb_module_ble_broadcast_return
    \/ Observe
    \/ pb_module_ble_observe_read

SpecFailures == Init /\ [][NextFailures]_vars

(***************************************************************************)
(* The read loop step by step on slots that are full, or whose size is     *)
(* larger than the buffer, or whose last record crosses the size.          *)
(***************************************************************************)
\* an advertisement of 31 bytes for channel 0: length byte, 26 times `byte`
Full(length_byte, byte, rssi) ==
    Raw("ADV_NONCONN_IND",
        <<length_byte, MFG_SPECIFIC, LEGO_CID % 256, LEGO_CID \div 256, 0>>
            \o Fill(OBSERVED_DATA_MAX_SIZE, byte), rssi)

\* sizes 26, 27 and 252 over 26 one-byte records; size 2 over a record of 3
\* bytes; size 1 over the header of a str of 31 bytes
FullAds(bld) ==
    { Full(30, 64, -20), Full(31, 32, -21), Full(0, 0, -22),
      Raw("ADV_NONCONN_IND", <<6, MFG_SPECIFIC, LEGO_CID % 256, LEGO_CID \div 256, 0,
                               162, 97, 98>>, -23),
      Raw("ADV_NONCONN_IND", <<5, MFG_SPECIFIC, LEGO_CID % 256, LEGO_CID \div 256, 0,
                               191>>, -24),
      Sent(bld, 0, SeqA, -40) }

FullAdsOf == [bld \in Builds |-> FullAds(bld)]

\* the callback does not run while lines 337-357 run
AdvertisementFull ==
    /\ pc # "observe_loop"
    /\ \E ad \in FullAdsOf[build] : OnAdvertisement(ad)

NextCap ==
    \/ ConstructValid
    \/ DriverCompleteTask
    \/ AdvertisementFull
    \/ ObserveValid
    \/ pb_module_ble_observe_begin
    \/ pb_module_ble_observe_step
    \/ pb_module_ble_observe_finish

SpecCap == InitCorrupt /\ [][NextCap]_vars

(***************************************************************************)
(* Events the driver still delivers after cleanup, for every channel byte. *)
(***************************************************************************)
\* a well-formed advertisement for each value of the channel byte
LateAds ==
    {Raw("ADV_NONCONN_IND",
         <<6, MFG_SPECIFIC, LEGO_CID % 256, LEGO_CID \div 256, c, 32, 64>>, -45) :
        c \in 0..255}

\* while the instance is live, a sender on channel 0
AdvertisementLive ==
    /\ observed_data # "NULL"
    /\ OnAdvertisement(Sent(build, 0, SeqA, -40))

AdvertisementLate ==
    /\ observed_data = "NULL"
    /\ \E ad \in LateAds : OnAdvertisement(ad)

\* what the released table is in memory: the slots as they were left
ReleasedTable ==
    [k \in 1..MAX_CHANNEL_NUMBER + 1 |->
        Slot(-40, 3, <<32, 97, 5>> \o Fill(OBSERVED_DATA_MAX_SIZE - 3, RxByte))]

NextLate ==
    \/ ConstructValid
    \/ pb_type_BLE_cleanup
    \/ DriverCompleteTask
    \/ DriverStopped
    \/ AdvertisementLive
    \/ AdvertisementLate
    \/ Broadcast
    \/ pb_module_ble_broadcast_return
    \/ ObserveValid
    \/ pb_module_ble_observe_read

SpecLate == Init /\ [][NextLate]_vars

(***************************************************************************)
(* The task bridge with a driver that completes every task it is given and *)
(* a scheduler that resumes the caller once its task is complete:          *)
(* pb_wait_task(&task, -1) waits without a timeout.                        *)
(***************************************************************************)
NextLive ==
    \/ ConstructValid
    \/ pb_type_BLE_cleanup
    \/ DriverCompleteTask
    \/ DriverStopped
    \/ AdvertisementSeqA
    \/ Broadcast
    \/ pb_module_ble_broadcast_return
    \/ ObserveValid
    \/ pb_module_ble_observe_read

SpecLive ==
    /\ Init
    /\ [][NextLive]_vars
    /\ WF_vars(DriverCompleteTask)
    /\ WF_vars(pb_module_ble_broadcast_return)
    /\ WF_vars(pb_module_ble_observe_read)

(***************************************************************************)
(* The motor process (motor_process.c).  The thread runs once for every    *)
(* event it is given, from the place it last yielded to its next yield.    *)
(* The event timer is Contiki's: a timer that is set, reset or restarted   *)
(* is owned by the process; when its interval has passed the etimer        *)
(* process takes it from the process and posts a timer event.              *)
(***************************************************************************)
\* the period of the control loop, a configuration value; the model takes a
\* small one
PBIO_CONFIG_CONTROL_LOOP_TIME_MS == 2

ProcessEvents ==
    {"PROCESS_EVENT_INIT", "PROCESS_EVENT_TIMER", "PROCESS_EVENT_POLL", "PROCESS_EVENT_MSG"}

\* timer_expired: the interval has passed since the start of the timer
timer_expired(t, now) == now - t.start >= t.interval

\* etimer_expired: the timer is no longer owned by a process
etimer_expired(t) == t.p = "PROCESS_NONE"

etimer_set(interval, now) ==
    [start |-> now, interval |-> interval, p |-> "pbio_motor_process"]

etimer_reset(t) ==
    [t EXCEPT !.start = t.start + t.interval, !.p = "pbio_motor_process"]

etimer_restart(t, now) == [t EXCEPT !.start = now, !.p = "pbio_motor_process"]

\* a timer that is only ever reset: it stays behind once it fell behind
NextTimer_no_restart(t, now) == etimer_reset(t)

\* lines 43-50: reset the timer, and restart it if that leaves it expired
NextTimer(t, now) ==
    LET r == etimer_reset(t)
    IN  IF timer_expired(r, now) THEN etimer_restart(r, now) ELSE r

\* lines 21 and 24
BootCalls == <<"pbio_battery_init", "pbio_dcmotor_stop_all">>

\* lines 32, 35 and 38
CycleCalls == <<"pbio_battery_update", "pbio_drivebase_update_all", "pbio_servo_update_all">>

\* a thread that runs a control cycle on every event it is given
pbio_motor_process_any_event(mp, ev) ==
    IF mp.lc = "begin"
    THEN [mp EXCEPT !.ev = ev, !.calls = BootCalls, !.lc = "wait",
                    !.timer = etimer_set(PBIO_CONFIG_CONTROL_LOOP_TIME_MS, mp.clock)]
    ELSE [mp EXCEPT !.ev = ev, !.calls = @ \o CycleCalls, !.at = mp.clock,
                    !.timer = NextTimer(mp.timer, mp.clock)]

\* PROCESS_THREAD(pbio_motor_process, ev, data): one run of the thread on
\* event ev, from PROCESS_BEGIN or from the wait of line 29 to that wait
pbio_motor_process(mp, ev) ==
    IF mp.lc = "begin"
    THEN [mp EXCEPT !.ev = ev, !.calls = BootCalls, !.lc = "wait",
                    !.timer = etimer_set(PBIO_CONFIG_CONTROL_LOOP_TIME_MS, mp.clock)]
    ELSE IF ev = "PROCESS_EVENT_TIMER" /\ etimer_expired(mp.timer)
         THEN [mp EXCEPT !.ev = ev, !.calls = @ \o CycleCalls, !.at = mp.clock,
                         !.timer = NextTimer(mp.timer, mp.clock)]
         ELSE [mp EXCEPT !.ev = ev]

\* process_start: the thread is run at once with the init event
pbio_motor_process_start ==
    /\ motor_process.lc = "off"
    /\ motor_process' =
          pbio_motor_process([motor_process EXCEPT !.lc = "begin"], "PROCESS_EVENT_INIT")
    /\ UNCHANGED <<ble_vars, motor_driver, motor_call>>

\* the system clock advances
ClockTick ==
    /\ motor_process.clock < MaxClock
    /\ motor_process' = [motor_process EXCEPT !.clock = @ + 1]
    /\ UNCHANGED <<ble_vars, motor_driver, motor_call>>

\* the etimer process finds the timer expired: it posts the timer event
etimer_process ==
    /\ motor_process.lc = "wait"
    /\ ~etimer_expired(motor_process.timer)
    /\ timer_expired(motor_process.timer, motor_process.clock)
    /\ motor_process' = [motor_process EXCEPT !.timer.p = "PROCESS_NONE",
                                              !.posted = @ + 1,
                                              !.expiries = @ + 1]
    /\ UNCHANGED <<ble_vars, motor_driver, motor_call>>

\* the scheduler hands the posted timer event to the thread
do_event ==
    /\ motor_process.lc = "wait"
    /\ motor_process.posted > 0
    /\ motor_process' =
          [pbio_motor_process(motor_process, "PROCESS_EVENT_TIMER") EXCEPT !.posted = @ - 1]
    /\ UNCHANGED <<ble_vars, motor_driver, motor_call>>

\* any other event reaches the thread, a timer event of another origin too
process_post_synch(ev) ==
    /\ motor_process.lc = "wait"
    /\ motor_process' = pbio_motor_process(motor_process, ev)
    /\ UNCHANGED <<ble_vars, motor_driver, motor_call>>

OtherEvent == \E ev \in ProcessEvents : process_post_synch(ev)

NextMotorProcess ==
    \/ pbio_motor_process_start
    \/ ClockTick
    \/ etimer_process
    \/ do_event
    \/ OtherEvent

SpecMotorProcess == Init /\ [][NextMotorProcess]_vars

(***************************************************************************)
(* The ev3dev motor driver (drv/ev3dev_stretch/motor.c).  A call takes the *)
(* driver state md and gives its return value and the new state.  The      *)
(* files are the sysfs attributes of the motor; whether fopen, fflush and  *)
(* fscanf succeed is for the system to decide.  last.io lists the file     *)
(* accesses of the last call.                                              *)
(***************************************************************************)
DriverPorts == (PBDRV_CONFIG_FIRST_MOTOR_PORT - 1)..(PBDRV_CONFIG_LAST_MOTOR_PORT + 1)

\* C integer division truncates towards zero
TruncDiv(a, b) == IF a >= 0 THEN a \div b ELSE -((-a) \div b)

\* what the motor makes of content written to one of its attributes
Written(node, filename, content) ==
    IF filename = "command"
    THEN IF content = "reset"
         THEN [node EXCEPT !.command = content, !.duty_cycle_sp = 0]
         ELSE [node EXCEPT !.command = content]
    ELSE IF filename = "stop_action" THEN [node EXCEPT !.stop_action = content]
    ELSE IF filename = "duty_cycle_sp" THEN [node EXCEPT !.duty_cycle_sp = content]
    ELSE node

Access(md, port, filename, content, ok) ==
    [md EXCEPT !.last.io = Append(@, [file |-> filename, idx |-> PORT_TO_IDX(port),
                                      content |-> content, ok |-> ok])]

slow_write(md, port, filename, content, opens) ==
    IF port < PBDRV_CONFIG_FIRST_MOTOR_PORT \/ port > PBDRV_CONFIG_LAST_MOTOR_PORT
    THEN [err |-> "PBIO_ERROR_INVALID_PORT", md |-> md]
    ELSE IF ~md.motor_files[PORT_TO_IDX(port)].connected
    THEN [err |-> "PBIO_ERROR_NO_DEV", md |-> md]
    ELSE IF opens
    THEN [err |-> "PBIO_SUCCESS",
          md |-> [Access(md, port, filename, content, TRUE) EXCEPT
                     !.sysfs[PORT_TO_IDX(port)] = Written(@, filename, content)]]
    ELSE [err |-> "PBIO_ERROR_IO", md |-> Access(md, port, filename, content, FALSE)]

\* a coast that marks the port before it looks whether a motor is connected
pbdrv_motor_coast_marks_first(md, port, opens) ==
    IF port < PBDRV_CONFIG_FIRST_MOTOR_PORT \/ port > PBDRV_CONFIG_LAST_MOTOR_PORT
    THEN [err |-> "PBIO_ERROR_INVALID_PORT", md |-> md]
    ELSE slow_write([md EXCEPT !.motor_files[PORT_TO_IDX(port)].coasting = TRUE],
                    port, "command", "stop", opens)

pbdrv_motor_coast(md, port, opens) ==
    IF port < PBDRV_CONFIG_FIRST_MOTOR_PORT \/ port > PBDRV_CONFIG_LAST_MOTOR_PORT
    THEN [err |-> "PBIO_ERROR_INVALID_PORT", md |-> md]
    ELSE IF ~md.motor_files[PORT_TO_IDX(port)].connected
    THEN [err |-> "PBIO_ERROR_NO_DEV", md |-> md]
    ELSE slow_write([md EXCEPT !.motor_files[PORT_TO_IDX(port)].coasting = TRUE],
                    port, "command", "stop", opens)

\* lines 136-157; the result of the slow_write of line 145 is not looked at
pbdrv_motor_set_duty_cycle(md, port, duty_cycle, opens, flushes) ==
    IF port < PBDRV_CONFIG_FIRST_MOTOR_PORT \/ port > PBDRV_CONFIG_LAST_MOTOR_PORT
    THEN [err |-> "PBIO_ERROR_INVALID_PORT", md |-> md]
    ELSE IF ~md.motor_files[PORT_TO_IDX(port)].connected
    THEN [err |-> "PBIO_ERROR_NO_DEV", md |-> md]
    ELSE LET idx == PORT_TO_IDX(port)
             m1 == IF md.motor_files[idx].coasting
                   THEN [slow_write(md, port, "command", "run-direct", opens).md
                            EXCEPT !.motor_files[idx].coasting = FALSE]
                   ELSE md
         IN  IF flushes
             THEN [err |-> "PBIO_SUCCESS",
                   md |-> [Access(m1, port, "duty_cycle_sp", TruncDiv(duty_cycle, 100), TRUE)
                              EXCEPT !.sysfs[idx] =
                                  Written(@, "duty_cycle_sp", TruncDiv(duty_cycle, 100))]]
             ELSE [err |-> "PBIO_ERROR_IO",
                   md |-> Access(m1, port, "duty_cycle_sp", TruncDiv(duty_cycle, 100), FALSE)]

\* lines 159-176: the count read is value when fscanf succeeds
pbdrv_motor_get_encoder_count(md, port, value, scans) ==
    IF port < PBDRV_CONFIG_FIRST_MOTOR_PORT \/ port > PBDRV_CONFIG_LAST_MOTOR_PORT
    THEN [err |-> "PBIO_ERROR_INVALID_PORT", md |-> md]
    ELSE IF ~md.motor_files[PORT_TO_IDX(port)].connected
    THEN [err |-> "PBIO_ERROR_NO_DEV", md |-> md]
    ELSE [err |-> IF scans THEN "PBIO_SUCCESS" ELSE "PBIO_ERROR_IO",
          md |-> [Access(md, port, "position", value, scans) EXCEPT !.last.value = value]]

\* lines 178-189: success whatever fscanf read; when it read nothing the rate
\* is what the caller's variable held, which is any value
pbdrv_motor_get_encoder_rate(md, port, value, scans) ==
    IF port < PBDRV_CONFIG_FIRST_MOTOR_PORT \/ port > PBDRV_CONFIG_LAST_MOTOR_PORT
    THEN [err |-> "PBIO_ERROR_INVALID_PORT", md |-> md]
    ELSE IF ~md.motor_files[PORT_TO_IDX(port)].connected
    THEN [err |-> "PBIO_ERROR_NO_DEV", md |-> md]
    ELSE [err |-> "PBIO_SUCCESS",
          md |-> [Access(md, port, "speed", value, scans) EXCEPT !.last.value = value]]

\* lines 84-105 for one port: reset, stop action, coast
InitPort(md, port, opens) ==
    IF md.motor_files[PORT_TO_IDX(port)].connected
    THEN LET a == slow_write(md, port, "command", "reset", opens).md
             b == slow_write(a, port, "stop_action", "coast", opens).md
         IN  pbdrv_motor_coast(b, port, opens).md
    ELSE md

RECURSIVE InitPorts(_, _, _)
InitPorts(md, port, opens) ==
    IF port > PBDRV_CONFIG_LAST_MOTOR_PORT THEN md
    ELSE InitPorts(InitPort(md, port, opens), port + 1, opens)

\* the state a call starts from: nothing accessed yet
Entering(md, op, port) == [md EXCEPT !.last = [NoDriverCall EXCEPT !.op = op, !.port = port]]

Leaving(r) == [r.md EXCEPT !.last.err = r.err]

\* _pbdrv_motor_init: the motors found in /sys/class/tacho-motor are on
\* the ports attached
pbdrv_motor_init(attached, opens) ==
    /\ ~motor_driver.inited
    /\ LET found == [Entering(motor_driver, "init", PBDRV_CONFIG_FIRST_MOTOR_PORT) EXCEPT
                        !.inited = TRUE,
                        !.motor_files = [i \in PortIndexes |->
                            IF i \in attached THEN [@[i] EXCEPT !.connected = TRUE]
                            ELSE @[i]]]
       IN  motor_driver' = InitPorts(found, PBDRV_CONFIG_FIRST_MOTOR_PORT, opens)
    /\ UNCHANGED <<ble_vars, motor_process, motor_call>>

DutyCycles == {-150, 5000}

EncoderValues == {0, 360}

DriverInit == \E attached \in SUBSET PortIndexes, opens \in BOOLEAN : pbdrv_motor_init(attached, opens)

Coast ==
    \E port \in DriverPorts, opens \in BOOLEAN :
        /\ motor_driver' =
              Leaving(pbdrv_motor_coast(Entering(motor_driver, "coast", port), port, opens))
        /\ UNCHANGED <<ble_vars, motor_process, motor_call>>

SetDutyCycle ==
    \E port \in DriverPorts, duty_cycle \in DutyCycles, opens \in BOOLEAN, flushes \in BOOLEAN :
        /\ motor_driver' =
              Leaving(pbdrv_motor_set_duty_cycle(
                  Entering(motor_driver, "set_duty_cycle", port), port, duty_cycle, opens, flushes))
        /\ UNCHANGED <<ble_vars, motor_process, motor_call>>

GetEncoderCount ==
    \E port \in DriverPorts, value \in EncoderValues, scans \in BOOLEAN :
        /\ motor_driver' =
              Leaving(pbdrv_motor_get_encoder_count(
                  Entering(motor_driver, "get_encoder_count", port), port, value, scans))
        /\ UNCHANGED <<ble_vars, motor_process, motor_call>>

GetEncoderRate ==
    \E port \in DriverPorts, value \in EncoderValues, scans \in BOOLEAN :
        /\ motor_driver' =
              Leaving(pbdrv_motor_get_encoder_rate(
                  Entering(motor_driver, "get_encoder_rate", port), port, value, scans))
        /\ UNCHANGED <<ble_vars, motor_process, motor_call>>

NextMotorDriver ==
    \/ DriverInit
    \/ Coast
    \/ SetDutyCycle
    \/ GetEncoderCount
    \/ GetEncoderRate

SpecMotorDriver == Init /\ [][NextMotorDriver]_vars

(***************************************************************************)
(* The motor module (drivers/modmotor.c): the run commands of an encoded   *)
(* motor.  The start functions pbio_encmotor_* and the control state       *)
(* motor_control_active belong to the motor library: a start gives an      *)
(* error or sets the control state of the port, and the control loop ends  *)
(* a maneuver that is running.  A call that waits polls the control state  *)
(* and lets the system run for 10 ms between two polls.                    *)
(***************************************************************************)
RunCommands == {"stop", "run_time", "run_stalled", "run_angle", "run_target"}

\* stop, run_time and run_stalled raise before they wait (lines 269-270, 290-291,
\* 313-314); run_angle and run_target wait before they raise (341-342, 363-364)
RaisesFirst(cmd) == cmd \in {"stop", "run_time", "run_stalled"}

WaitArgs == {"PBIO_MOTOR_WAIT_COMPLETION", "PBIO_MOTOR_WAIT_BACKGROUND"}

StartErrors == {"PBIO_SUCCESS", "PBIO_ERROR_NO_DEV", "PBIO_ERROR_INVALID_ARG"}

ControlStates == {"PBIO_MOTOR_CONTROL_RUNNING", "PBIO_MOTOR_CONTROL_COASTING"}

MotorPorts == PBDRV_CONFIG_FIRST_MOTOR_PORT..PBDRV_CONFIG_LAST_MOTOR_PORT

\* a wait that does not look at the error of the start
wait_for_completion_ignores_error(port, error, wait) ==
    wait = "PBIO_MOTOR_WAIT_COMPLETION"

\* line 28: whether the loop of lines 29-31 is entered
wait_for_completion(port, error, wait) ==
    wait = "PBIO_MOTOR_WAIT_COMPLETION" /\ error = "PBIO_SUCCESS"

\* what the call returns when it does not raise (lines 271, 315-322)
ReturnValue(cmd, wait) ==
    IF cmd = "run_stalled" /\ wait = "PBIO_MOTOR_WAIT_COMPLETION" THEN "float" ELSE "None"

\* a run command from its start to its return, its raise, or the first test
\* of the wait loop; err and started are the outcome of pbio_encmotor_<cmd>
motor_EncodedMotor_run(cmd, port, wait, err, started) ==
    /\ motor_call.pc = "idle"
    /\ LET active == IF err = "PBIO_SUCCESS"
                     THEN [motor_call.motor_control_active EXCEPT ![PORT_TO_IDX(port)] = started]
                     ELSE motor_call.motor_control_active
           call == [motor_call EXCEPT !.motor_control_active = active, !.cmd = cmd,
                                      !.port = port, !.wait = wait, !.err = err,
                                      !.delays = 0,
                                      !.ret = [raised |-> "none", value |-> "none"]]
           raises == [call EXCEPT !.ret.raised = err]
           returns == [call EXCEPT !.ret.value = ReturnValue(cmd, wait)]
           waits == [call EXCEPT !.pc = "wait_for_completion"]
       IN  motor_call' =
              IF RaisesFirst(cmd)
              THEN IF err # "PBIO_SUCCESS" THEN raises
                   ELSE IF wait_for_completion(port, err, wait) THEN waits
                   ELSE returns
              ELSE IF wait_for_completion(port, err, wait) THEN waits
                   ELSE IF err # "PBIO_SUCCESS" THEN raises
                   ELSE returns
    /\ UNCHANGED <<ble_vars, motor_process, motor_driver>>

\* lines 29-31: one test of the loop, and the delay or the return after it
wait_for_completion_loop ==
    /\ motor_call.pc = "wait_for_completion"
    /\ IF motor_call.motor_control_active[PORT_TO_IDX(motor_call.port)]
              = "PBIO_MOTOR_CONTROL_RUNNING"
       THEN /\ motor_call.delays < MaxDelays
            /\ motor_call' = [motor_call EXCEPT !.delays = @ + 1]
       ELSE motor_call' = [motor_call EXCEPT
                              !.pc = "idle",
                              !.ret.value = ReturnValue(motor_call.cmd, motor_call.wait)]
    /\ UNCHANGED <<ble_vars, motor_process, motor_driver>>

\* the control loop ends the maneuver of a port
ControlUpdate(idx) ==
    /\ motor_call.motor_control_active[idx] = "PBIO_MOTOR_CONTROL_RUNNING"
    /\ motor_call' = [motor_call EXCEPT
                         !.motor_control_active[idx] = "PBIO_MOTOR_CONTROL_COASTING"]
    /\ UNCHANGED <<ble_vars, motor_process, motor_driver>>

RunCommand ==
    \E cmd \in RunCommands, port \in MotorPorts, wait \in WaitArgs,
       err \in StartErrors, started \in ControlStates :
        motor_EncodedMotor_run(cmd, port, wait, err, started)

ManeuverDone == \E idx \in PortIndexes : ControlUpdate(idx)

NextMotorCall ==
    \/ RunCommand
    \/ wait_for_completion_loop
    \/ ManeuverDone

SpecMotorCall == Init /\ [][NextMotorCall]_vars

(***************************************************************************)
(* Properties.                                                             *)
(***************************************************************************)

\* what a caller may get from observe(c) when every read is of one stored
\* advertisement: the result of one advertisement sent on c, or the result of
\* the content the slot had after construction
C1_Results(c) ==
    {[rssi |-> 0, items |-> <<>>], [rssi |-> -1, items |-> <<VTrue, VFalse>>]}
    \cup {[rssi |-> ad.tag.rssi, items |-> ad.tag.vs] :
             ad \in {a \in GoodAdsOf[build] : a.data[5] = c}}

\* C1: an observe(c) that interleaves with callbacks for c returns the rssi
\* and values of exactly one accepted advertisement (or of the initial
\* state), never a mix of two.  Checked under SpecPreempt.
C1_AtomicRead ==
    (ret.op = "observe" /\ ret.err # "InvalidArg") =>
        (ret.err = "none" /\ ret.val \in C1_Results(ret.chan))

\* C2: after a successful construct(b, m) the table has m+1 allocated slots,
\* as many as num_observed_data, so every channel index the callback or
\* observe accepts is an allocated slot.
C2_AllChannelsAllocated ==
    observed_data # "NULL" =>
        /\ self.nslots = num_observed_data
        /\ \A c \in 0..num_observed_data - 1 : c < self.nslots

\* C3: every channel's stored size is at most the capacity of the data
\* buffer, whatever length byte the advertisements carried.
C3_SizeWithinCapacity ==
    \A k \in 1..Len(mem) : mem[k].size <= OBSERVED_DATA_MAX_SIZE

\* C4 as stated: decoding the record encode produced for a value gives back
\* that value, and the cursor ends where encode stopped writing.
C4_RoundTrip ==
    cx.step = "decoded" =>
        /\ cx.dec.err = "none"
        /\ cx.dec.value = cx.v
        /\ cx.dec.index = cx.enc.index

\* C4 amended: the round trip holds for every value of the supported kinds
\* whose record fits, a float provided it is a single precision value.
C4_RoundTripSingle ==
    (cx.step = "decoded" /\ cx.v.x = 0) =>
        /\ cx.dec.err = "none"
        /\ cx.dec.value = cx.v
        /\ cx.dec.index = cx.enc.index

C4_Witness ==
    /\ cx.step = "decoded"
    /\ build.float = "double"
    /\ cx.v = VFloat(<<49225, 4059>>, 0)
    /\ cx.index = 3
    /\ cx.dec.index = 8

\* C5: when the advertisement that broadcast(vs) produces for channel c is
\* the last one stored for c, observe(c) returns its rssi and vs.
C5_EndToEnd ==
    (ret.op = "observe" /\ ret.src.built) =>
        /\ ret.err = "none"
        /\ ret.val = [rssi |-> ret.src.rssi, items |-> ret.src.vs]

C6_In32(n) == -32768 <= n[1] /\ n[1] <= 32767

C6_Width(n) ==
    IF (n[1] = 0 /\ n[2] <= 127) \/ (n[1] = -1 /\ n[2] >= 65536 - 128) THEN 1
    ELSE IF (n[1] = 0 /\ n[2] <= 32767) \/ (n[1] = -1 /\ n[2] >= 32768) THEN 2
    ELSE 4

\* the integer whose two's complement representation the bytes are
C6_Value(bytes) ==
    IF Len(bytes) = 1
    THEN IF bytes[1] >= 128 THEN <<-1, 65280 + bytes[1]>> ELSE <<0, bytes[1]>>
    ELSE IF Len(bytes) = 2
    THEN IF bytes[2] >= 128 THEN <<-1, bytes[1] + 256 * bytes[2]>>
         ELSE <<0, bytes[1] + 256 * bytes[2]>>
    ELSE <<(bytes[3] + 256 * bytes[4]) - (IF bytes[4] >= 128 THEN 65536 ELSE 0),
           bytes[1] + 256 * bytes[2]>>

\* C6: an integer of the 32-bit signed range is written as an Int record of
\* the smallest of 1, 2, 4 bytes that holds it, little-endian two's
\* complement (127: 1 byte, 128 and 32767: 2 bytes, 32768: 4 bytes).
C6_SmallestWidth ==
    (cx.step \in {"encoded", "decoded"} /\ cx.v.t = "int" /\ C6_In32(cx.v.n)) =>
        LET w == C6_Width(cx.v.n) IN
        /\ cx.v.n = I(127) => w = 1
        /\ cx.v.n \in {I(128), I(32767)} => w = 2
        /\ cx.v.n = I(32768) => w = 4
        /\ IF cx.index + 1 + w > OBSERVED_DATA_MAX_SIZE
           THEN cx.enc.err = "ValueError"
           ELSE /\ cx.enc.err = "none"
                /\ cx.enc.index = cx.index + 1 + w
                /\ cx.enc.dst[cx.index + 1] = 3 * 32 + w
                /\ C6_Value(SubSeq(cx.enc.dst, cx.index + 2, cx.index + 1 + w)) = cx.v.n

C6_Witness ==
    /\ cx.step = "encoded"
    /\ cx.v = VInt(I(128))
    /\ cx.index = 4
    /\ cx.enc.index = 7
    /\ SubSeq(cx.enc.dst, 5, 7) = <<98, 128, 0>>

\* C7: an integer outside the 32-bit signed range makes encode fail with
\* OverflowError on every build, and nothing is written for it.
C7_Overflow ==
    (cx.step \in {"encoded", "decoded"} /\ cx.v.t = "int" /\ ~C6_In32(cx.v.n)) =>
        /\ cx.enc.err = "OverflowError"
        /\ cx.enc.dst = StartBuffer
        /\ cx.enc.index = cx.index

C7_Witness ==
    /\ cx.step = "encoded"
    /\ build.ptr = 8
    /\ cx.v = VInt(<<32768, 0>>)
    /\ cx.enc.err = "OverflowError"

C8_Size(v) ==
    IF v.t \in {"none", "true", "false"} THEN 0
    ELSE IF v.t = "int" THEN C6_Width(v.n)
    ELSE IF v.t = "float" THEN 4
    ELSE Len(v.b)

RECURSIVE C8_Total(_, _)
C8_Total(args, k) == IF k = 0 THEN 0 ELSE C8_Total(args, k - 1) + 1 + C8_Size(args[k])

C8_TooBig(args) ==
    /\ \A k \in 1..Len(args) :
          args[k].t # "obj" /\ (args[k].t = "int" => C6_In32(args[k].n))
    /\ C8_Total(args, Len(args)) > 26

C8_TooBigArgs == {args \in WideBroadcastArgs : C8_TooBig(args)}

C8_FirstOver(args) ==
    CHOOSE k \in 1..Len(args) : C8_Total(args, k) > 26 /\ C8_Total(args, k - 1) <= 26

\* C8: a broadcast whose records add up to more than 26 bytes raises
\* ValueError at the first value that does not fit and makes no request to
\* the driver.  Checked under SpecBroadcast.
C8_TooBigRaises ==
    [][\A args \in C8_TooBigArgs :
          pb_module_ble_broadcast(args) =>
              /\ ret'.op = "broadcast"
              /\ ret'.err = "ValueError"
              /\ ret'.n = C8_Total(args, C8_FirstOver(args) - 1)
              /\ drv' = drv
              /\ pc' = "idle"]_vars

C8_Witness ==
    /\ ret.op = "broadcast"
    /\ ret.err = "ValueError"
    /\ ret.args = <<VStr(Str(24, 65)), VTrue, VFalse>>
    /\ ret.n = 26
    /\ drv.adv # <<>>
    /\ drv.task = "none"

RECURSIVE C9_Records(_, _)
\* the bytes from pos on are whole records that end at the end of the payload
C9_Records(adv, pos) ==
    IF pos = Len(adv) THEN TRUE
    ELSE IF pos > Len(adv) THEN FALSE
    ELSE C9_Records(adv, pos + 1 + (adv[pos + 1] % 32))

C9_WellFormed(adv, channel) ==
    /\ Len(adv) >= 5
    /\ SubSeq(adv, 1, 5) = <<Len(adv) - 1, 255, 151, 3, channel>>
    /\ channel \in 0..15
    /\ Len(adv) - 5 <= 26
    /\ C9_Records(adv, 5)

C10_Ignored(ad) ==
    \/ ad.event_type # "ADV_NONCONN_IND"
    \/ ad.length < 5
    \/ ad.data[2] # 255
    \/ ad.data[3] # 151 \/ ad.data[4] # 3
    \/ ad.data[5] >= num_observed_data

\* C10: an advertisement of another pdu type, shorter than 5 bytes, without
\* the 0xFF marker, of another company or for a channel >= num_observed_data
\* raises nothing and leaves every channel's rssi, size and data unchanged.
C10_IgnoredLeavesTable ==
    [][\A ad \in AdsOf[build] :
          (C10_Ignored(ad) /\ OnAdvertisement(ad)) =>
              (mem' = mem /\ ret' = ret /\ pc' = pc)]_vars

C10_Witness ==
    /\ drv.rx = "dropped"
    /\ observed_data # "NULL"
    /\ \E k \in 1..Len(seen) : seen[k].built /\ mem[k].size = 3

\* sanity: C5 on the channels that lie inside the allocation
C5_EndToEndAllocated ==
    (ret.op = "observe" /\ ret.src.built /\ ret.chan < self.nslots) =>
        /\ ret.err = "none"
        /\ ret.val = [rssi |-> ret.src.rssi, items |-> ret.src.vs]

\* C11: an accepted advertisement for channel c changes the entry of channel
\* c only; the rssi, size and data of every other channel stay as they were.
C11_OtherChannelsUnchanged ==
    [][mem' # mem =>
          \A ad \in AdsOf[build] :
             (Accepts(num_observed_data, ad) /\ OnAdvertisement(ad)) =>
                 \A d \in 1..Len(mem) : d # ad.data[5] + 1 => mem'[d] = mem[d]]_vars

\* both channels hold the advertisement last stored for them
C11_Witness ==
    /\ drv.rx = "stored"
    /\ Len(mem) >= 2
    /\ seen[1].built /\ seen[1].rssi = -70 /\ mem[1].rssi = -70 /\ mem[1].size = 7
    /\ seen[2].built /\ mem[2].rssi = -40 /\ mem[2].size = 3

\* C12: last writer wins.  When two different advertisements were stored for
\* channel c and observe read none of them in between, observe(c) returns the
\* rssi and the values of the second one.
C12_LastWriterWins ==
    (ret.op = "observe" /\ ret.src.built /\ ret.src.st = "over") =>
        /\ ret.err = "none"
        /\ ret.val = [rssi |-> ret.src.rssi, items |-> ret.src.vs]

\* sanity: C12 on the channels that lie inside the allocation
C12_LastWriterWinsAllocated ==
    (ret.op = "observe" /\ ret.src.built /\ ret.src.st = "over"
     /\ ret.chan < self.nslots) =>
        /\ ret.err = "none"
        /\ ret.val = [rssi |-> ret.src.rssi, items |-> ret.src.vs]

\* sanity: observe(0) has returned the second of two unread advertisements
C12_Reached ==
    /\ ret.op = "observe" /\ ret.chan = 0 /\ self.nslots > 0
    /\ ret.src.st = "over" /\ ret.src.rssi = -40
    /\ ret.val = [rssi |-> -40, items |-> SeqA]

\* C13: after cleanup and until a construct succeeds, observe fails with an
\* error on every channel, starts nothing in the driver, and no read of the
\* table is in progress.
C13_ObserveAfterCleanupFails ==
    /\ [](observed_data = "NULL" => pc \notin {"observe_wait", "observe_loop"})
    /\ [][(observed_data = "NULL" /\ self.exists /\ pc = "idle") =>
             \A c \in ObserveArgs :
                pb_module_ble_observe(c) =>
                    /\ ret'.op = "observe" /\ ret'.err = "InvalidArg"
                    /\ pc' = "idle" /\ drv' = drv]_vars

\* observe has failed after a cleanup
C13_Witness ==
    /\ observed_data = "NULL" /\ self.exists /\ self.nslots > 0
    /\ ret.op = "observe" /\ ret.err = "InvalidArg"

\* C14: a construct call made while an instance is live is refused and leaves
\* the live instance, its table and the channel count as they are.
C14_SecondConstructRefused ==
    [][(observed_data # "NULL" /\ pc = "idle") =>
          \A b \in BroadcastChannelArgs, m \in ObserveChannelArgs :
             pb_type_BLE_new(b, m) =>
                 /\ ret'.op = "new" /\ ret'.err # "none"
                 /\ UNCHANGED <<observed_data, num_observed_data, self, mem>>]_vars

\* sanity: C14 on the builds that compile assert() in
C14_SecondConstructRefusedWithAsserts ==
    [][(observed_data # "NULL" /\ pc = "idle" /\ build.asserts) =>
          \A b \in BroadcastChannelArgs, m \in ObserveChannelArgs :
             pb_type_BLE_new(b, m) =>
                 /\ ret'.op = "new" /\ ret'.err = "assert"
                 /\ UNCHANGED <<observed_data, num_observed_data, self, mem>>]_vars

C15_OutOfRange(c) == ~Le(I(0), c) \/ Le(I(num_observed_data), c)

\* C15: observe(channel) with channel < 0 or channel >= num_observed_data
\* fails with InvalidArg, asks nothing of the driver and leaves the table
\* as it is.
C15_OutOfRangeFails ==
    [][(self.exists /\ pc = "idle") =>
          \A c \in ObserveArgs :
             (C15_OutOfRange(c) /\ pb_module_ble_observe(c)) =>
                 /\ ret'.op = "observe" /\ ret'.err = "InvalidArg"
                 /\ drv' = drv /\ mem' = mem /\ pc' = "idle"]_vars

\* sanity: C15 for the channel arguments that fit mp_int_t
C15_OutOfRangeFailsInWord ==
    [][(self.exists /\ pc = "idle") =>
          \A c \in ObserveArgs :
             (C15_OutOfRange(c) /\ FitsWord(build, c) /\ pb_module_ble_observe(c)) =>
                 /\ ret'.op = "observe" /\ ret'.err = "InvalidArg"
                 /\ drv' = drv /\ mem' = mem /\ pc' = "idle"]_vars

\* the call gets past the assertion of line 393
C16_Runs == pc = "idle" /\ ~(observed_data # "NULL" /\ build.asserts)

C16_Below0OrAbove15(n) == ~Le(I(0), n) \/ ~Le(n, I(MAX_CHANNEL_NUMBER))

RECURSIVE C17_FirstBadHeader(_, _)
C17_FirstBadHeader(slot, pos) ==
    IF pos >= slot.size \/ pos >= OBSERVED_DATA_MAX_SIZE THEN 0
    ELSE LET h == slot.data[pos + 1]
             tag == h \div 32
             len == h % 32
         IN  IF \/ tag \in {0, 1, 2} /\ len = 0
                \/ tag = 3 /\ len \in {1, 2, 4}
                \/ tag = 4 /\ len = 4
                \/ tag \in {5, 6}
             THEN C17_FirstBadHeader(slot, pos + 1 + len)
             ELSE h

C17_Unknown(h) == h \div 32 = 7 \/ (h \div 32 = 3 /\ h % 32 \notin {1, 2, 4})

\* C17: when the stored bytes of the channel have, at a record boundary
\* below size, a header with tag 7 or an Int header whose length is not 1,
\* 2 or 4, observe fails with the bad-data RuntimeError and returns no values.
C17_UnknownRecordRaises ==
    [][(pc = "observe_wait" /\ pc' = "idle"
        /\ C17_Unknown(C17_FirstBadHeader(mem[chan + 1], 0))) =>
           /\ ret'.op = "observe" /\ ret'.err = "RuntimeError"
           /\ ret'.val = NoVal]_vars

\* observe has failed on a payload with an Int record of length 3 behind a
\* well-formed record
C17_Witness ==
    /\ ret.op = "observe" /\ ret.err = "RuntimeError" /\ ret.val = NoVal
    /\ mem[ret.chan + 1].size >= 5
    /\ SubSeq(mem[ret.chan + 1].data, 1, 3) = <<97, 5, 99>>

C18_Inconsistent(h) ==
    \/ h \div 32 = 4 /\ h % 32 # 4
    \/ h \div 32 \in {0, 1, 2} /\ h % 32 # 0

\* C18: when the stored bytes of the channel have, at a record boundary
\* below size, a Float header whose length is not 4 or a None, True or
\* False header whose length is not 0, observe fails with the bad-data
\* RuntimeError and the record is not decoded into a value.
C18_InconsistentRecordRaises ==
    [][(pc = "observe_wait" /\ pc' = "idle"
        /\ C18_Inconsistent(C17_FirstBadHeader(mem[chan + 1], 0))) =>
           /\ ret'.op = "observe" /\ ret'.err = "RuntimeError"
           /\ ret'.val = NoVal]_vars

\* sanity: a build without floats rejects every Float record
C18_FloatRaisesWithoutFloats ==
    [][(pc = "observe_wait" /\ pc' = "idle" /\ build.float = "none"
        /\ C17_FirstBadHeader(mem[chan + 1], 0) \div 32 = 4) =>
           /\ ret'.op = "observe" /\ ret'.err = "RuntimeError"
           /\ ret'.val = NoVal]_vars

\* C19: once the start-observing task of an observe call on a valid channel
\* has completed, the call can return without a further advertisement, and
\* what it returns for a channel on which no advertisement has been accepted
\* since construct is the empty sequence of values.
C19_CachedSampleReturned ==
    /\ (pc = "observe_wait" /\ drv.task = "complete") =>
           ENABLED pb_module_ble_observe_read
    /\ (ret.op = "observe" /\ ret.err # "InvalidArg" /\ ret.src = NoAd) =>
           ret.err = "none" /\ ret.val.items = <<>>

\* sanity: C19 on the channels that lie inside the allocation
C19_CachedSampleReturnedAllocated ==
    /\ (pc = "observe_wait" /\ drv.task = "complete") =>
           ENABLED pb_module_ble_observe_read
    /\ (ret.op = "observe" /\ ret.err # "InvalidArg" /\ ret.src = NoAd
        /\ ret.chan < self.nslots) =>
           ret.err = "none" /\ ret.val = [rssi |-> 0, items |-> <<>>]

\* sanity: observe has returned the never-observed state of an allocated channel
C19_Reached ==
    /\ ret.op = "observe" /\ ret.err = "none" /\ ret.src = NoAd
    /\ ret.chan < self.nslots /\ ret.val = [rssi |-> 0, items |-> <<>>]

\* C20: a broadcast or observe call that starts a driver task leaves the
\* task pending; while the task issued by the call is pending the call
\* neither returns nor reads the table; the call ends only from the state
\* in which the driver has completed that task.
C20_ReturnsAfterTaskCompletes ==
    /\ [][(pc = "idle" /\ pc' \in {"broadcast_wait", "observe_wait"}) =>
             drv'.task = "pending"]_vars
    /\ [][(pc \in {"broadcast_wait", "observe_wait"} /\ drv.task = "pending") =>
             (pc' = pc /\ ret' = ret /\ drv'.task \in {"pending", "complete"})]_vars
    /\ [][(pc \in {"broadcast_wait", "observe_wait"} /\ pc' # pc) =>
             (drv.task = "complete" /\ pc' = "idle"
              /\ ret'.op = (IF pc = "broadcast_wait" THEN "broadcast" ELSE "observe"))]_vars

\* a broadcast has been started and a later observe has read the table,
\* each after its task was completed
C20_Witness ==
    /\ pc = "idle" /\ drv.task = "none" /\ drv.broadcasting
    /\ ret.op = "observe" /\ ret.err = "none"

\* C21: with a driver that completes every task, a broadcast or observe call
\* that waits for its task eventually returns; and in a step before which
\* and after which the task is not complete, a waiting call does not return
\* (there is no timeout and no cancellation).
C21_CallsReturn ==
    /\ (pc = "broadcast_wait") ~> (pc = "idle" /\ ret.op = "broadcast")
    /\ (pc = "observe_wait") ~> (pc = "idle" /\ ret.op = "observe")
    /\ [][(pc \in {"broadcast_wait", "observe_wait"}
           /\ drv.task # "complete" /\ drv'.task # "complete") => pc' = pc]_vars

\* a broadcast has returned after an observe call had returned
C21_Witness ==
    /\ pc = "idle" /\ drv.task = "none" /\ drv.observing = "on"
    /\ ret.op = "broadcast" /\ ret.err = "none"

\* C22: the payload the driver holds changes only when a broadcast call hands
\* it over, and is then made of the records of that call alone: its length
\* is 5 plus the sizes of the records of the call's values, and its bytes
\* are the payload built from the call's values.
C22_LatestOnly ==
    /\ [][(pc = "idle" /\ pc' = "broadcast_wait") =>
            \A args \in WideBroadcastArgs :
               pb_module_ble_broadcast(args) =>
                  /\ Len(drv'.adv) = 5 + C8_Total(args, Len(args))
                  /\ drv'.adv = OnAir(BuildValue(build, self.broadcast_channel, args))]_vars
    /\ [][drv'.adv # drv.adv => (pc = "idle" /\ pc' = "broadcast_wait")]_vars

\* a call without values is in progress after an earlier call has returned:
\* only the 5-byte prefix is on the air
C22_Witness ==
    /\ pc = "broadcast_wait" /\ ret.op = "broadcast" /\ ret.err = "none"
    /\ drv.adv = <<4, MFG_SPECIFIC, LEGO_CID % 256, LEGO_CID \div 256,
                   self.broadcast_channel>>

\* the call that returned last was observe on the channel now being read, and
\* no advertisement has been stored for the channel since
C23_SecondRead ==
    /\ pc = "observe_wait" /\ pc' = "idle"
    /\ ret.op = "observe" /\ ret.err # "InvalidArg" /\ ret.chan = chan
    /\ seen[chan + 1].st = "read"

\* C23: an observe call leaves observing enabled and writes to no channel's
\* slot, and a second observe(c) with no advertisement accepted for c since
\* the first returns what the first returned.
C23_Repeatable ==
    /\ [][(pc = "idle" /\ pc' = "observe_wait") =>
             (mem' = mem /\ drv'.observing = "on")]_vars
    /\ [][(pc = "observe_wait" /\ pc' = "idle") =>
             (mem' = mem /\ drv'.observing = "on")]_vars
    /\ [][C23_SecondRead => (ret'.err = ret.err /\ ret'.val = ret.val)]_vars

\* sanity: C23 on the channels that lie inside the allocation
C23_RepeatableAllocated ==
    /\ [][(pc = "idle" /\ pc' = "observe_wait") =>
             (mem' = mem /\ drv'.observing = "on")]_vars
    /\ [][(pc = "observe_wait" /\ pc' = "idle") =>
             (mem' = mem /\ drv'.observing = "on")]_vars
    /\ [][(C23_SecondRead /\ chan < self.nslots) =>
             (ret'.err = ret.err /\ ret'.val = ret.val)]_vars

\* sanity: observe(0) has returned an advertisement it had returned before
C23_Reached ==
    /\ ret.op = "observe" /\ ret.chan = 0 /\ self.nslots > 0
    /\ ret.src.built /\ ret.src.st = "read"
    /\ ret.val = [rssi |-> -70, items |-> SeqB]

C24_FirstUnsupported(args) == CHOOSE k \in 1..Len(args) :
    args[k].t = "obj" /\ \A j \in 1..k - 1 : args[j].t # "obj"

C24_UnsupportedArgs == {args \in WideBroadcastArgs : \E k \in 1..Len(args) : args[k].t = "obj"}

\* the values in front of the first unsupported one are encoded successfully
C24_EarlierFit(args) ==
    LET k == C24_FirstUnsupported(args) IN
    /\ \A j \in 1..k - 1 : args[j].t = "int" => C6_In32(args[j].n)
    /\ C8_Total(args, k - 1) <= 26

\* C24 as stated: a broadcast call with an unsupported value fails with
\* TypeError and makes no request to the driver.
C24_UnsupportedIsTypeError ==
    [][(pc = "idle" /\ (ret' # ret \/ pc' # pc)) =>
         \A args \in C24_UnsupportedArgs :
            pb_module_ble_broadcast(args) =>
               (ret'.err = "TypeError" /\ drv' = drv /\ pc' = "idle")]_vars

\* C24: a broadcast call with an unsupported value fails and makes no request
\* to the driver; it fails with TypeError when the values in front of the
\* first unsupported one were encoded successfully, and otherwise with the
\* ValueError or OverflowError of the earlier value.
C24_UnsupportedFails ==
    [][(pc = "idle" /\ (ret' # ret \/ pc' # pc)) =>
         \A args \in C24_UnsupportedArgs :
            pb_module_ble_broadcast(args) =>
               /\ ret'.op = "broadcast" /\ drv' = drv /\ pc' = "idle"
               /\ IF C24_EarlierFit(args) THEN ret'.err = "TypeError"
                  ELSE ret'.err \in {"ValueError", "OverflowError"}]_vars

\* TypeError for the third value after two values that filled 26 bytes, with
\* an earlier payload still held by the driver
C24_Witness ==
    /\ ret.op = "broadcast" /\ ret.err = "TypeError"
    /\ Len(ret.args) = 3 /\ ret.args[3] = VObj /\ ret.n = 26
    /\ drv.adv # <<>> /\ drv.task = "none" /\ pc = "idle"

C25_Errors == {"ValueError", "TypeError", "OverflowError", "InvalidArg", "RuntimeError"}

C25_Reached ==
    /\ ret.op = "observe" /\ ret.err = "RuntimeError" /\ ret.chan = 0
    /\ drv.adv # <<>> /\ drv.broadcasting

\* sanity: a broadcast has failed while observing is enabled and data is stored
C25_ReachedBroadcast ==
    /\ ret.op = "broadcast" /\ ret.err = "ValueError"
    /\ drv.observing = "on" /\ num_observed_data = 2 /\ mem[1].size > 0

\* C26 as stated: the stored size of a channel is 0 exactly when no
\* advertisement has been accepted for it since construct.
C26_SizeZeroIffNeverObserved ==
    \A c \in 1..Len(seen) : (mem[c].size = 0) <=> (seen[c] = NoAd)

\* C26: on a channel inside the allocation the stored size is 0 as long as
\* no advertisement has been accepted for it since construct, and after a
\* sender's advertisement has been accepted it is the number of bytes of the
\* sender's records, which is 0 for a broadcast without values.
C26_NeverObservedIsEmpty ==
    \A c \in 1..Len(seen) :
       c <= self.nslots =>
          /\ seen[c] = NoAd => mem[c].size = 0
          /\ seen[c].built => mem[c].size = C8_Total(seen[c].vs, Len(seen[c].vs))

\* the advertisement of a broadcast without values has been accepted for
\* channel 0, a channel inside the allocation: its size is 0 again
C26_Witness ==
    /\ self.nslots >= 1 /\ seen[1].built /\ seen[1].vs = <<>>
    /\ mem[1].rssi = -30 /\ mem[1].size = 0 /\ mem[1].data[1] # 0

\* C27: the read loop has made at most 26 decode steps and holds one value
\* per step; a decode step is made only from a cursor below the stored size
\* and after fewer than 26 steps; the call returns at most 26 values, at the
\* first point where the cursor is at or past the stored size or 26 steps
\* have been made.
C27_BoundedDecoding ==
    /\ [](pc = "observe_loop" =>
            (cur.i <= OBSERVED_DATA_MAX_SIZE /\ Len(cur.items) = cur.i))
    /\ [][(pc = "observe_loop"
           /\ (cur'.i = cur.i + 1 \/ (pc' = "idle" /\ ret'.err # "none"))) =>
            (cur.i < OBSERVED_DATA_MAX_SIZE /\ cur.index < mem[chan + 1].size)]_vars
    /\ [][(pc = "observe_loop" /\ pc' = "idle" /\ ret'.err = "none") =>
            /\ Len(ret'.val.items) <= OBSERVED_DATA_MAX_SIZE
            /\ Len(ret'.val.items) = cur.i
            /\ cur.i = OBSERVED_DATA_MAX_SIZE \/ cur.index >= mem[chan + 1].size]_vars

\* observe has returned 26 values from a slot whose size is 252
C27_Witness ==
    /\ ret.op = "observe" /\ ret.err = "none" /\ Len(ret.val.items) = 26
    /\ pc = "idle" /\ mem[ret.chan + 1].size = 252 /\ ret.val.rssi = -22

\* the highest index of data[] that decode reads for the record at `index`
C28_LastRead(bld, m, index) ==
    LET size == m[index + 1] % 32
        data_type == m[index + 1] \div 32
    IN  IF data_type = PB_BLE_BROADCAST_DATA_TYPE_INT /\ size \in {1, 2, 4}
        THEN index + size
        ELSE IF data_type = PB_BLE_BROADCAST_DATA_TYPE_FLOAT /\ bld.float # "none"
        THEN index + 4
        ELSE IF data_type \in {PB_BLE_BROADCAST_DATA_TYPE_STR,
                               PB_BLE_BROADCAST_DATA_TYPE_BYTES}
        THEN index + size
        ELSE index

\* C28: every decode step of observe reads only bytes of data[] at indexes
\* below the stored size of the channel and below 26.
C28_ReadsWithinSize ==
    [][(pc = "observe_loop"
        /\ (cur'.i = cur.i + 1 \/ (pc' = "idle" /\ ret'.err # "none"))) =>
          /\ C28_LastRead(build, ChannelMem(mem, chan), cur.index) < mem[chan + 1].size
          /\ C28_LastRead(build, ChannelMem(mem, chan), cur.index)
                < OBSERVED_DATA_MAX_SIZE]_vars

\* sanity: the header of every record is read at an index below the stored size
C28_HeaderWithinSize ==
    [][(pc = "observe_loop"
        /\ (cur'.i = cur.i + 1 \/ (pc' = "idle" /\ ret'.err # "none"))) =>
          cur.index < mem[chan + 1].size]_vars

\* sanity: observe has returned a str of 31 bytes from a slot of size 1
C28_Reached ==
    /\ ret.op = "observe" /\ ret.err = "none" /\ mem[ret.chan + 1].size = 1
    /\ Len(ret.val.items) = 1 /\ ret.val.items[1].t = "str"
    /\ Len(ret.val.items[1].b) = 31

\* the raw advertisement with other bytes at the indexes from `length` on
C29_Beyond(data, length) ==
    [k \in 1..Len(data) |-> IF k <= length THEN data[k] ELSE 0]

\* C29: what the callback stores for an accepted advertisement is the same
\* whatever the bytes of the receive buffer at indexes >= length are, that
\* is, the callback reads none of them.
C29_ReadsWithinLength ==
    [][mem' # mem =>
         \A ad \in FullAdsOf[build] :
            OnAdvertisement(ad) =>
               mem' = handle_observe_event(mem, num_observed_data, ad.event_type,
                                           C29_Beyond(ad.data, ad.length), ad.length,
                                           ad.rssi)]_vars

\* sanity: the rssi, the size and the first length - 5 bytes of data that the
\* callback stores do not depend on the bytes at indexes >= length
C29_PrefixWithinLength ==
    [][mem' # mem =>
         \A ad \in FullAdsOf[build] :
            OnAdvertisement(ad) =>
               LET other == handle_observe_event(
                                mem, num_observed_data, ad.event_type,
                                C29_Beyond(ad.data, ad.length), ad.length, ad.rssi)
                   c == ad.data[5] + 1
               IN  /\ mem'[c].rssi = other[c].rssi /\ mem'[c].size = other[c].size
                   /\ SubSeq(mem'[c].data, 1, ad.length - 5)
                         = SubSeq(other[c].data, 1, ad.length - 5)]_vars

C30_Tag(v) ==
    CASE v.t = "none" -> 0 [] v.t = "true" -> 1 [] v.t = "false" -> 2
      [] v.t = "int" -> 3 [] v.t = "float" -> 4 [] v.t = "str" -> 5
      [] v.t = "bytes" -> 6

\* C30: a record that encode has written has a payload of at most 25 bytes
\* and ends within the 26 bytes; its header divided by 32 is the type tag of
\* the value and its header modulo 32 is the number of payload bytes.
C30_HeaderFields ==
    (cx.step \in {"encoded", "decoded"} /\ cx.enc.err = "none") =>
        LET header == cx.enc.dst[cx.index + 1]
            length == cx.enc.index - cx.index - 1
        IN  /\ length \in 0..25
            /\ cx.enc.index <= OBSERVED_DATA_MAX_SIZE
            /\ Len(cx.enc.dst) = OBSERVED_DATA_MAX_SIZE
            /\ header \div 32 = C30_Tag(cx.v)
            /\ header % 32 = length
            /\ length = C8_Size(cx.v)

\* a str of 25 bytes has been encoded at index 0: header 5 * 32 + 25
C30_Witness ==
    /\ cx.step = "encoded" /\ cx.enc.err = "none" /\ cx.index = 0
    /\ cx.v.t = "str" /\ Len(cx.v.b) = 25 /\ cx.enc.dst[1] = 185
    /\ cx.enc.index = 26

\* every value can be encoded and the records add up to at most 26 bytes
C31_Fits(args) ==
    /\ \A k \in 1..Len(args) :
          args[k].t # "obj" /\ (args[k].t = "int" => C6_In32(args[k].n))
    /\ C8_Total(args, Len(args)) <= 26

C31_FittingArgs == {args \in WideBroadcastArgs : C31_Fits(args)}

RECURSIVE C31_Headers(_, _)
\* the headers of the records of the payload from pos on, in order
C31_Headers(adv, pos) ==
    IF pos >= Len(adv) THEN <<>>
    ELSE <<adv[pos + 1]>> \o C31_Headers(adv, pos + 1 + (adv[pos + 1] % 32))

\* C31: a broadcast call whose values are all encodable and whose records
\* add up to at most 26 bytes does not fail: it gives the driver one
\* start-broadcasting task with a payload of 5 bytes plus the records, one
\* record per value in the order of the values.
C31_FittingSucceeds ==
    [][(pc = "idle" /\ (pc' # pc \/ ret' # ret)) =>
         \A args \in C31_FittingArgs :
            pb_module_ble_broadcast(args) =>
               /\ pc' = "broadcast_wait" /\ ret' = ret
               /\ drv.task = "none" /\ drv'.task = "pending" /\ drv'.broadcasting
               /\ Len(drv'.adv) = 5 + C8_Total(args, Len(args))
               /\ C31_Headers(drv'.adv, 5)
                     = [k \in 1..Len(args) |->
                           32 * C30_Tag(args[k]) + C8_Size(args[k])]]_vars

\* the payload of a call with one bytes value of 25 bytes: 26 bytes of records
C31_Witness ==
    /\ pc = "broadcast_wait" /\ drv.task = "pending"
    /\ Len(drv.adv) = 31 /\ drv.adv[6] = 217

\* C32: cleanup leaves the driver with broadcasting off and observing off or
\* being stopped; from then until a construct, every advertisement the
\* driver still delivers is dropped, and the callback applied to the memory
\* of the released table leaves it as it is, for every channel byte.
C32_LateEventsDropped ==
    /\ [][(observed_data # "NULL" /\ observed_data' = "NULL") =>
            /\ ~drv'.broadcasting /\ drv'.observing \in {"off", "stopping"}
            /\ num_observed_data' = 0]_vars
    /\ [][(observed_data = "NULL" /\ observed_data' = "NULL") =>
            (mem' = mem /\ (drv'.rx # drv.rx => drv'.rx = "dropped"))]_vars
    /\ [](observed_data = "NULL" =>
            \A ad \in LateAds :
               /\ ~Accepts(num_observed_data, ad)
               /\ handle_observe_event(ReleasedTable, num_observed_data, ad.event_type,
                                       ad.data, ad.length, ad.rssi) = ReleasedTable)

\* an advertisement was dropped while the driver was still stopping observing
C32_Witness ==
    /\ observed_data = "NULL" /\ self.exists /\ ret.op = "cleanup"
    /\ drv.observing = "stopping" /\ drv.rx = "dropped" /\ ~drv.broadcasting
    /\ drv.adv # <<>>

\* the calls the motor process made so far, if it booted and ran whole cycles
C33_Expected(n) ==
    [k \in 1..n |-> IF k <= 2 THEN BootCalls[k] ELSE CycleCalls[((k - 3) % 3) + 1]]

C33_Cycles == IF motor_process.calls = <<>> THEN 0 ELSE (Len(motor_process.calls) - 2) \div 3

\* C33: the motor process first initialises the battery and stops all motors,
\* and only then updates; every cycle is battery, drivebases, servos in that
\* order; a cycle runs only when the thread is given a timer event while its
\* timer is expired, one cycle for that event, and there are never more
\* cycles than timer expiries.
C33_CycleOnTimerExpiry ==
    /\ [](/\ motor_process.calls = C33_Expected(Len(motor_process.calls))
          /\ Len(motor_process.calls) % 3 \in {0, 2}
          /\ (motor_process.calls # <<>> => Len(motor_process.calls) >= 2)
          /\ C33_Cycles <= motor_process.expiries)
    /\ [][motor_process'.calls # motor_process.calls =>
             IF motor_process.lc = "off"
             THEN motor_process'.calls = BootCalls
             ELSE /\ motor_process'.ev = "PROCESS_EVENT_TIMER"
                  /\ etimer_expired(motor_process.timer)
                  /\ motor_process'.calls = motor_process.calls \o CycleCalls]_vars
    /\ [][\A ev \in ProcessEvents \ {"PROCESS_EVENT_TIMER"} :
             process_post_synch(ev) => motor_process'.calls = motor_process.calls]_vars

\* two cycles have run, and then the thread was given a poll event
C33_Witness ==
    /\ Len(motor_process.calls) = 8
    /\ motor_process.expiries = 2
    /\ motor_process.ev = "PROCESS_EVENT_POLL"

\* C34: a control cycle leaves the timer running and not expired: its start is
\* moved on by one interval, or to the current time when that would leave it
\* expired; so no two cycles run at the same time of the clock.
C34_TimerAheadAfterCycle ==
    [][(motor_process.lc = "wait" /\ motor_process'.calls # motor_process.calls) =>
          LET r == motor_process.timer.start + motor_process.timer.interval
              now == motor_process.clock
          IN  /\ ~etimer_expired(motor_process'.timer)
              /\ ~timer_expired(motor_process'.timer, now)
              /\ motor_process'.timer.interval = motor_process.timer.interval
              /\ motor_process'.timer.start =
                    (IF now - r >= motor_process.timer.interval THEN now ELSE r)
              /\ motor_process.at < now]_vars

\* the first cycle ran so late that the timer was restarted from the clock
C34_Witness ==
    /\ Len(motor_process.calls) = 5
    /\ motor_process.at = motor_process.timer.start
    /\ motor_process.at > 2 * motor_process.timer.interval

\* the step is a call of op of the driver
C35_Call(op) == motor_driver' # motor_driver /\ motor_driver'.last.op = op

C35_Idx == PORT_TO_IDX(motor_driver'.last.port)

C35_Connected ==
    /\ motor_driver'.last.port \in PBDRV_CONFIG_FIRST_MOTOR_PORT..PBDRV_CONFIG_LAST_MOTOR_PORT
    /\ motor_driver.motor_files[C35_Idx].connected

\* C35: on a connected port a duty value is written only while the motor is
\* in run-direct mode: every set_duty_cycle that wrote the duty leaves the
\* motor with the duty and in run-direct mode.
C35_DutyOnlyInRunDirect ==
    [][(C35_Call("set_duty_cycle") /\ C35_Connected
            /\ motor_driver'.last.err = "PBIO_SUCCESS") =>
          motor_driver'.sysfs[C35_Idx].command = "run-direct"]_vars

\* what the driver does do, whether or not its writes succeed: coast marks the
\* port and tries to send stop; set_duty_cycle on a coasting port tries to send
\* run-direct, clears the mark and then writes the duty; on a port that is not
\* coasting it only writes the duty
C35_CommandsTried ==
    [][/\ (C35_Call("coast") /\ C35_Connected) =>
             /\ motor_driver'.motor_files[C35_Idx].coasting
             /\ Len(motor_driver'.last.io) = 1
             /\ motor_driver'.last.io[1].file = "command"
             /\ motor_driver'.last.io[1].content = "stop"
       /\ (C35_Call("set_duty_cycle") /\ C35_Connected) =>
             /\ ~motor_driver'.motor_files[C35_Idx].coasting
             /\ IF motor_driver.motor_files[C35_Idx].coasting
                THEN /\ Len(motor_driver'.last.io) = 2
                     /\ motor_driver'.last.io[1].file = "command"
                     /\ motor_driver'.last.io[1].content = "run-direct"
                     /\ motor_driver'.last.io[2].file = "duty_cycle_sp"
                ELSE /\ Len(motor_driver'.last.io) = 1
                     /\ motor_driver'.last.io[1].file = "duty_cycle_sp"]_vars

\* the duty was written to a motor that obeys stop
C35_DutyWhileStopped ==
    /\ motor_driver.last.op = "set_duty_cycle"
    /\ motor_driver.last.err = "PBIO_SUCCESS"
    /\ motor_driver.last.port = PBDRV_CONFIG_FIRST_MOTOR_PORT
    /\ Len(motor_driver.last.io) = 1
    /\ motor_driver.sysfs[0].command = "stop"
    /\ motor_driver.sysfs[0].duty_cycle_sp = 50

C36_Calls == {"coast", "set_duty_cycle", "get_encoder_count", "get_encoder_rate"}

C36_OutOfRange(port) ==
    port < PBDRV_CONFIG_FIRST_MOTOR_PORT \/ port > PBDRV_CONFIG_LAST_MOTOR_PORT

\* the error for a port that is out of range or has no motor, "none" otherwise
C36_PortError(md, port) ==
    IF C36_OutOfRange(port) THEN "PBIO_ERROR_INVALID_PORT"
    ELSE IF ~md.motor_files[PORT_TO_IDX(port)].connected THEN "PBIO_ERROR_NO_DEV"
    ELSE "none"

\* C36: coast, set_duty_cycle, get_encoder_count, get_encoder_rate and
\* slow_write return INVALID_PORT for a port out of the range of motor ports
\* and NO_DEV for a port of the range with no motor connected; they then
\* access no file and change no flag of the driver.
C36_PortErrorsTouchNothing ==
    /\ [][(motor_driver' # motor_driver /\ motor_driver'.last.op \in C36_Calls
              /\ C36_PortError(motor_driver, motor_driver'.last.port) # "none") =>
             /\ motor_driver'.last.err = C36_PortError(motor_driver, motor_driver'.last.port)
             /\ motor_driver'.last.io = <<>>
             /\ motor_driver'.motor_files = motor_driver.motor_files
             /\ motor_driver'.sysfs = motor_driver.sysfs]_vars
    /\ [](\A port \in DriverPorts, opens \in BOOLEAN,
             filename \in {"command", "stop_action"}, content \in {"stop", "coast"} :
             C36_PortError(motor_driver, port) # "none" =>
                slow_write(motor_driver, port, filename, content, opens) =
                    [err |-> C36_PortError(motor_driver, port), md |-> motor_driver])

\* after init found a motor on one port only, a call on the other port
\* returned NO_DEV
C36_Witness ==
    /\ motor_driver.inited
    /\ motor_driver.motor_files[0].connected
    /\ ~motor_driver.motor_files[1].connected
    /\ motor_driver.last.op = "set_duty_cycle"
    /\ motor_driver.last.port = PBDRV_CONFIG_FIRST_MOTOR_PORT + 1
    /\ motor_driver.last.err = "PBIO_ERROR_NO_DEV"

C37_Running == 
    motor_call.motor_control_active[PORT_TO_IDX(motor_call.port)] = "PBIO_MOTOR_CONTROL_RUNNING"

\* C37: a run command with wait = completion whose start succeeded returns
\* only when the control state of its port is not RUNNING; with wait =
\* background it returns at once; when the start gave an error it raises that
\* error at once, whatever the wait argument.
C37_WaitsForCompletion ==
    /\ [][(motor_call.pc = "idle" /\ motor_call' # motor_call) =>
             \A cmd \in RunCommands, port \in MotorPorts, wait \in WaitArgs,
                err \in StartErrors, started \in ControlStates :
                motor_EncodedMotor_run(cmd, port, wait, err, started) =>
                   IF err # "PBIO_SUCCESS"
                   THEN /\ motor_call'.pc = "idle"
                        /\ motor_call'.ret = [raised |-> err, value |-> "none"]
                        /\ motor_call'.delays = 0
                   ELSE IF wait = "PBIO_MOTOR_WAIT_BACKGROUND"
                   THEN /\ motor_call'.pc = "idle"
                        /\ motor_call'.ret = [raised |-> "none", value |-> "None"]
                        /\ motor_call'.delays = 0
                   ELSE motor_call'.pc = "wait_for_completion"]_vars
    /\ [][(motor_call.pc = "wait_for_completion" /\ motor_call' # motor_call) =>
             /\ motor_call'.pc = "idle" => (~C37_Running /\ motor_call'.ret.raised = "none")
             /\ C37_Running => motor_call'.pc = "wait_for_completion"]_vars
    /\ [](motor_call.pc = "wait_for_completion" =>
             motor_call.wait = "PBIO_MOTOR_WAIT_COMPLETION" /\ motor_call.err = "PBIO_SUCCESS")

\* run_angle waited through every poll for its maneuver and then returned
C37_Witness ==
    /\ motor_call.pc = "idle"
    /\ motor_call.cmd = "run_angle"
    /\ motor_call.wait = "PBIO_MOTOR_WAIT_COMPLETION"
    /\ motor_call.err = "PBIO_SUCCESS"
    /\ motor_call.delays = MaxDelays
    /\ motor_call.ret = [raised |-> "none", value |-> "None"]
    /\ ~C37_Running

====
